---------------------------- MODULE Spec2Model ----------------------------
(***************************************************************************)
(* A state-machine model of the NanoboyAdvance GBA core: the interrupt     *)
(* registers and their I/O decode (GBAMemory::WriteByte), the PPU timing   *)
(* state machine (GBAVideo::Step), the banked ARM7 register file and its   *)
(* IRQ entry (ARM7), the instruction pipeline (ARM7::Step), the DMA engine *)
(* (GBAMemory::RunDMA), the reset sequence (CPU::Reset) and the scheduler  *)
(* loop (CPU::RunFor).                                                      *)
(*                                                                         *)
(* 32-bit machine words are pairs <<hi, lo>> of 16-bit halves, so that     *)
(* every u32 value and its wrap-around arithmetic is representable.        *)
(***************************************************************************)
EXTENDS Integers, Sequences, FiniteSets, TLC

VARIABLES
    irq,      \* GBAInterrupt: ie, if_, ime
    video,    \* GBAVideo: the timing fields read and written by Step
    dma,      \* GBAMemory::m_DMA[4]
    wram,     \* GBAMemory::m_WRAM, the cells that are not zero
    timer,    \* GBAMemory::m_Timer[4]
    ram,      \* m_IRAM and GBAVideo's m_PAL, m_VRAM, m_OAM
    waitstate,\* GBAMemory::m_Waitstate
    halt,     \* GBAMemory::m_HaltState / mmio.haltcnt
    cpu,      \* ARM7: register banks, cpsr, spsr, register table, pipeline
    rom,      \* the guest program: the words the pipeline fetches
    reset,    \* CPU::Reset: control position, BIOS file, core state it sets
    sched,    \* CPU::RunFor: position inside one iteration of the inner loop
    call      \* observation of the latest operation: name, arguments, pre-state

vars == <<irq, video, dma, wram, timer, ram, waitstate, halt, cpu, rom, reset, sched, call>>

-----------------------------------------------------------------------------
(* Fixed-width integers.                                                   *)

W8  == 2^8
W16 == 2^16

Bit(x, i) == (x \div 2^i) % 2

RECURSIVE And(_, _)
And(a, b) ==
    IF a = 0 \/ b = 0 THEN 0
    ELSE (a % 2) * (b % 2) + 2 * And(a \div 2, b \div 2)

Or(a, b)  == a + b - And(a, b)
Not16(a)  == (W16 - 1) - a

\* C promotes a u8 to int before ~ and <<, and the result is then narrowed
\* to the u16 it is stored into: ~x over 16 bits.
U32(n)       == <<n \div W16, n % W16>>
And32(a, b)  == <<And(a[1], b[1]), And(a[2], b[2])>>
Or32(a, b)   == <<Or(a[1], b[1]), Or(a[2], b[2])>>
Not32(a)     == <<Not16(a[1]), Not16(a[2])>>
Add32(a, b)  ==
    LET lo == a[2] + b[2]
    IN  <<(a[1] + b[1] + lo \div W16) % W16, lo % W16>>
Sub32(a, b)  ==
    LET lo == a[2] - b[2] + W16
    IN  <<(a[1] - b[1] + (W16 - 1) + lo \div W16) % W16, lo % W16>>
Bit32(w, i)  == IF i < 16 THEN Bit(w[2], i) ELSE Bit(w[1], i - 16)

-----------------------------------------------------------------------------
(* I/O register offsets (iodef.h) and interrupt bits.                      *)

DISPSTAT == 4
VCOUNT   == 6
DMA0SAD   == 176
DMA0DAD   == 180
DMA0CNT_L == 184
DMA0CNT_H == 186
TM0CNT_L  == 256
TM0CNT_H  == 258
WAITCNT   == 516
REG_IE   == 512
REG_IF   == 514
REG_IME  == 520
HALTCNT  == 769

VBLANK_INTERRUPT == 1
HBLANK_INTERRUPT == 2
VCOUNT_INTERRUPT == 4

IOBase == U32(67108864)        \* 0x04000000

-----------------------------------------------------------------------------
(* GBAInterrupt and GBAVideo after construction.                           *)

InterruptInit == [ie |-> 0, if_ |-> 0, ime |-> 0]

VideoInit ==
    [ m_Ticks          |-> 0,
      m_State          |-> "Scanline",
      m_RenderScanline |-> FALSE,
      m_HBlankDMA      |-> FALSE,
      m_VBlankDMA      |-> FALSE,
      m_VCount         |-> 0,
      m_VCountFlag     |-> FALSE,
      m_VBlankIRQ      |-> FALSE,
      m_HBlankIRQ      |-> FALSE,
      m_VCountIRQ      |-> FALSE,
      m_VCountSetting  |-> 0 ]

-----------------------------------------------------------------------------
(* GBAMemory::WriteByte, page 4: the interrupt and display-status          *)
(* registers.  Each operator is one case of the switch.                    *)

WriteIE(ie, hi, value) ==
    IF hi THEN (ie % W8) + value * W8 ELSE (ie \div W8) * W8 + value

\* a plain store to IF, the behaviour the acknowledge write is told from
WriteIF_Assign(if_, hi, value) ==
    IF hi THEN (if_ % W8) + value * W8 ELSE (if_ \div W8) * W8 + value

\* if_ &= ~value  and  if_ &= ~(value << 8)
WriteIF(if_, hi, value) ==
    IF hi THEN And(if_, Not16(value * W8)) ELSE And(if_, Not16(value))

WriteIME(ime, hi, value) ==
    IF hi THEN (ime % W8) + value * W8 ELSE (ime \div W8) * W8 + value

WriteDISPSTAT(v, hi, value) ==
    IF hi
    THEN [v EXCEPT !.m_VCountSetting = value]
    ELSE [v EXCEPT !.m_VBlankIRQ = And(value, 8) # 0,
                   !.m_HBlankIRQ = And(value, 16) # 0,
                   !.m_VCountIRQ = And(value, 32) # 0]

WriteHALTCNT(value) == IF And(value, 128) # 0 THEN "STOP" ELSE "HALT"

-----------------------------------------------------------------------------
(* GBAVideo::Step: one tick of the scanline state machine.  The result is  *)
(* the new video state and the new IF register.                            *)

\* the line count at which the VBlank state is left, `m_VCount == 227`
VBlankLeaveLine(vcount) == vcount = 227

\* VBlank entered one line late, the behaviour line 160 is told from
VBlankEnterLine_161(vcount) == vcount = 161

\* the line count at which the HBlank state is left for VBlank
VBlankEnterLine(vcount) == vcount = 160

\* the request replaces the register instead of being or-ed into it
RaiseIF_Assign(if_, enabled, bit) == IF enabled THEN bit ELSE if_

RaiseIF(if_, enabled, bit) == IF enabled THEN Or(if_, bit) ELSE if_

StepScanline(v, if_) ==
    IF v.m_Ticks >= 960
    THEN [ video |-> [v EXCEPT !.m_HBlankDMA = TRUE,
                               !.m_State = "HBlank",
                               !.m_RenderScanline = TRUE,
                               !.m_Ticks = 0],
           if_   |-> RaiseIF(if_, v.m_HBlankIRQ, HBLANK_INTERRUPT) ]
    ELSE [ video |-> v, if_ |-> if_ ]

StepHBlank(v, if_) ==
    IF v.m_Ticks >= 272
    THEN LET vcount == (v.m_VCount + 1) % W16
             if1    == RaiseIF(if_, v.m_VCountFlag /\ v.m_VCountIRQ,
                               VCOUNT_INTERRUPT)
         IN  IF VBlankEnterLine(vcount)
             THEN [ video |-> [v EXCEPT !.m_VCount = vcount,
                                        !.m_HBlankDMA = FALSE,
                                        !.m_VBlankDMA = TRUE,
                                        !.m_State = "VBlank",
                                        !.m_Ticks = 0],
                    if_   |-> RaiseIF(if1, v.m_VBlankIRQ, VBLANK_INTERRUPT) ]
             ELSE [ video |-> [v EXCEPT !.m_VCount = vcount,
                                        !.m_HBlankDMA = FALSE,
                                        !.m_State = "Scanline",
                                        !.m_Ticks = 0],
                    if_   |-> if1 ]
    ELSE [ video |-> v, if_ |-> if_ ]

StepVBlank(v, if_) ==
    IF v.m_Ticks >= 1232
    THEN LET vcount == (v.m_VCount + 1) % W16
             if1    == RaiseIF(if_, v.m_VCountFlag /\ v.m_VCountIRQ,
                               VCOUNT_INTERRUPT)
         IN  IF VBlankLeaveLine(vcount)
             THEN [ video |-> [v EXCEPT !.m_VCount = 0,
                                        !.m_VBlankDMA = FALSE,
                                        !.m_State = "Scanline",
                                        !.m_Ticks = 0],
                    if_   |-> if1 ]
             ELSE [ video |-> [v EXCEPT !.m_VCount = vcount,
                                        !.m_Ticks = 0],
                    if_   |-> if1 ]
    ELSE [ video |-> v, if_ |-> if_ ]

VideoStep(v0, if_) ==
    LET v == [v0 EXCEPT !.m_Ticks = v0.m_Ticks + 1,
                        !.m_RenderScanline = FALSE,
                        !.m_VCountFlag = (v0.m_VCount = v0.m_VCountSetting)]
    IN  CASE v.m_State = "Scanline" -> StepScanline(v, if_)
          [] v.m_State = "HBlank"   -> StepHBlank(v, if_)
          [] v.m_State = "VBlank"   -> StepVBlank(v, if_)

-----------------------------------------------------------------------------
(* ARM7: the banked register file.  A register is named by the member it   *)
(* is stored in; gprs is the table of sixteen pointers and pspsr the       *)
(* pointer to the current saved-status slot.                               *)

ARM7Mode ==
    [ User |-> 16, FIQ |-> 17, IRQ |-> 18, SVC |-> 19,
      Abort |-> 23, Undefined |-> 27, System |-> 31 ]

Modes == { ARM7Mode.User, ARM7Mode.FIQ, ARM7Mode.IRQ, ARM7Mode.SVC,
           ARM7Mode.Abort, ARM7Mode.Undefined, ARM7Mode.System }

Thumb      == 32
IRQDisable == 128

StaticRegs == [ r \in (0 .. 7) \cup {15} |->
                  CASE r = 0 -> "r0" [] r = 1 -> "r1" [] r = 2 -> "r2"
                    [] r = 3 -> "r3" [] r = 4 -> "r4" [] r = 5 -> "r5"
                    [] r = 6 -> "r6" [] r = 7 -> "r7" [] r = 15 -> "r15" ]

PhysRegs ==
    { "r0", "r1", "r2", "r3", "r4", "r5", "r6", "r7",
      "r8", "r9", "r10", "r11", "r12", "r13", "r14", "r15",
      "r8_fiq", "r9_fiq", "r10_fiq", "r11_fiq", "r12_fiq", "r13_fiq",
      "r14_fiq", "r13_svc", "r14_svc", "r13_abt", "r14_abt",
      "r13_irq", "r14_irq", "r13_und", "r14_und" }

SpsrSlots == { "spsr_fiq", "spsr_svc", "spsr_abt", "spsr_irq", "spsr_und",
               "spsr_def" }

\* one case of the switch in RemapRegisters: the seven pointers and pspsr
BankUser == <<"r8", "r9", "r10", "r11", "r12", "r13", "r14", "spsr_def">>
BankFIQ  == <<"r8_fiq", "r9_fiq", "r10_fiq", "r11_fiq", "r12_fiq",
              "r13_fiq", "r14_fiq", "spsr_fiq">>
BankIRQ  == <<"r8", "r9", "r10", "r11", "r12", "r13_irq", "r14_irq",
              "spsr_irq">>
BankSVC  == <<"r8", "r9", "r10", "r11", "r12", "r13_svc", "r14_svc",
              "spsr_svc">>
BankAbort == <<"r8", "r9", "r10", "r11", "r12", "r13_abt", "r14_abt",
               "spsr_abt">>
BankUndefined == <<"r8", "r9", "r10", "r11", "r12", "r13_und", "r14_und",
                   "spsr_und">>
BankSystem == <<"r8", "r9", "r10", "r11", "r12", "r13", "r14", "spsr_def">>

ModeOf(cpsr) == cpsr[2] % 32

WithMode(cpsr, mode) == <<cpsr[1], (cpsr[2] \div 32) * 32 + mode>>

UseBank(c, bank) ==
    [c EXCEPT !.gprs  = [r \in 0 .. 15 |->
                           IF r \in 8 .. 14 THEN bank[r - 7] ELSE @[r]],
              !.pspsr = bank[8]]

RemapRegisters(c) ==
    CASE ModeOf(c.cpsr) = ARM7Mode.User      -> UseBank(c, BankUser)
      [] ModeOf(c.cpsr) = ARM7Mode.FIQ       -> UseBank(c, BankFIQ)
      [] ModeOf(c.cpsr) = ARM7Mode.IRQ       -> UseBank(c, BankIRQ)
      [] ModeOf(c.cpsr) = ARM7Mode.SVC       -> UseBank(c, BankSVC)
      [] ModeOf(c.cpsr) = ARM7Mode.Abort     -> UseBank(c, BankAbort)
      [] ModeOf(c.cpsr) = ARM7Mode.Undefined -> UseBank(c, BankUndefined)
      [] ModeOf(c.cpsr) = ARM7Mode.System    -> UseBank(c, BankSystem)
      [] OTHER -> c

reg(c, r) == c.regs[c.gprs[r]]

SetReg(c, r, value) == [c EXCEPT !.regs[c.gprs[r]] = value]

\* GetGeneralRegister: the value returned, and the object afterwards
GetGeneralRegisterValue(c, mode, r) ==
    reg(RemapRegisters([c EXCEPT !.cpsr = WithMode(c.cpsr, mode)]), r)

GetGeneralRegisterState(c, mode, r) ==
    LET old_mode == ModeOf(c.cpsr)
        c1 == RemapRegisters([c EXCEPT !.cpsr = WithMode(c.cpsr, mode)])
    IN  RemapRegisters([c1 EXCEPT !.cpsr = WithMode(c1.cpsr, old_mode)])

\* a store through the current table, without the switch to the named mode
SetGeneralRegister_NoSwitch(c, mode, r, value) == SetReg(c, r, value)

SetGeneralRegisterState(c, mode, r, value) ==
    LET old_mode == ModeOf(c.cpsr)
        c1 == RemapRegisters([c EXCEPT !.cpsr = WithMode(c.cpsr, mode)])
        c2 == SetReg(c1, r, value)
    IN  RemapRegisters([c2 EXCEPT !.cpsr = WithMode(c2.cpsr, old_mode)])

SetCurrentStatusRegisterState(c, value) == [c EXCEPT !.cpsr = value]

\* the link value without the pipeline adjustment
IRQReturnAddress_NoAdjust(r15, cpsr) == r15

\* FireIRQ
IRQReturnAddress(r15, cpsr) ==
    Add32(Sub32(r15, IF And(cpsr[2], Thumb) # 0 THEN U32(4) ELSE U32(8)),
          U32(4))

IRQEntryCpsr(cpsr) ==
    <<cpsr[1], Or((cpsr[2] \div 64) * 64, Or(ARM7Mode.IRQ, IRQDisable))>>

FireIRQState(c) ==
    IF And(c.cpsr[2], IRQDisable) = 0
    THEN LET c1 == [c EXCEPT !.regs["r14_irq"] = IRQReturnAddress(c.regs["r15"], c.cpsr),
                             !.spsr["spsr_irq"] = c.cpsr,
                             !.cpsr = IRQEntryCpsr(c.cpsr)]
             c2 == RemapRegisters(c1)
         IN  [c2 EXCEPT !.regs["r15"] = U32(24), !.pipe_status = 0]
    ELSE c

\* ARM7::ARM7: the object after construction, in the mode `mode`
ARM7Init(mode) ==
    LET c0 == [ regs  |-> [p \in PhysRegs |->
                             CASE p = "r15"     -> U32(134217728)
                               [] p = "r13"     -> U32(50364160)
                               [] p = "r13_svc" -> U32(50364384)
                               [] p = "r13_irq" -> U32(50364320)
                               [] OTHER         -> U32(0)],
                cpsr  |-> U32(mode),
                spsr  |-> [sl \in SpsrSlots |-> U32(0)],
                gprs  |-> [r \in 0 .. 15 |->
                             IF r \in DOMAIN StaticRegs THEN StaticRegs[r]
                             ELSE "r0"],
                pspsr |-> "spsr_def",
                pipe_status |-> 0,
                flush_pipe  |-> FALSE,
                pipe_opcode |-> <<U32(0), U32(0), U32(0)>>,
                pipe_decode |-> <<"none", "none", "none">> ]
    IN  RemapRegisters(c0)

-----------------------------------------------------------------------------
(* GBAMemory: the DMA channels.                                            *)

dma_count_mask  == <<16383, 16383, 16383, 65535>>
dma_dest_mask   == <<U32(134217727), U32(134217727), U32(134217727),
                     U32(268435455)>>
dma_source_mask == <<U32(134217727), U32(268435455), U32(268435455),
                     U32(268435455)>>

\* enum AddressControl, StartTime, TransferSize
DMA_INCREMENT == 0
DMA_DECREMENT == 1
DMA_FIXED     == 2
DMA_RELOAD    == 3
DMA_IMMEDIATE == 0
DMA_VBLANK    == 1
DMA_HBLANK    == 2
DMA_SPECIAL   == 3
DMA_HWORD     == 0
DMA_WORD      == 1

DMAChannelInit ==
    [ dest |-> U32(0), source |-> U32(0), count |-> 0,
      dest_int |-> U32(0), source_int |-> U32(0), count_int |-> 0,
      dest_control |-> DMA_INCREMENT, source_control |-> DMA_INCREMENT,
      start_time |-> DMA_IMMEDIATE, size |-> DMA_HWORD,
      repeat |-> FALSE, gamepack_drq |-> FALSE, interrupt |-> FALSE,
      enable |-> FALSE ]

DMAInit ==
    [ ch |-> [i \in 0 .. 3 |-> DMAChannelInit],
      m_DidTransfer |-> FALSE,
      m_DMACycles   |-> 0 ]

\* (w & ~(0xFF << 8k)) | (value << 8k)
SetByte32(w, k, value) ==
    CASE k = 0 -> <<w[1], (w[2] \div W8) * W8 + value>>
      [] k = 1 -> <<w[1], (w[2] % W8) + value * W8>>
      [] k = 2 -> <<(w[1] \div W8) * W8 + value, w[2]>>
      [] k = 3 -> <<(w[1] % W8) + value * W8, w[2]>>

\* count_int is a u16: the latched value is narrowed to 16 bits
LatchCount(count, i) ==
    LET n == And(count, dma_count_mask[i + 1])
    IN  IF n = 0 THEN (dma_count_mask[i + 1] + 1) % W16 ELSE n

\* case DMAnCNT_H
WriteDMACNT_H_Lo(d, value) ==
    [d EXCEPT !.source_control = Or(And(d.source_control, 2),
                                    (value \div 128) % 2),
              !.dest_control   = (value \div 32) % 4]

\* case DMAnCNT_H+1
WriteDMACNT_H_Hi(d, i, value) ==
    LET d1 == [d EXCEPT
                 !.source_control = (value % 2) * 2,
                 !.repeat       = And(value, 2) # 0,
                 !.size         = (value \div 4) % 2,
                 !.gamepack_drq = And(value, 8) # 0,
                 !.start_time   = (value \div 16) % 4,
                 !.interrupt    = And(value, 64) # 0,
                 !.enable       = And(value, 128) # 0]
    IN  IF d1.enable
        THEN [d1 EXCEPT
                 !.source_int = And32(d1.source, dma_source_mask[i + 1]),
                 !.dest_int   = And32(d1.dest, dma_dest_mask[i + 1]),
                 !.count_int  = LatchCount(d1.count, i)]
        ELSE d1

\* the twelve register bytes of channel i, at DMA0SAD + 12 i + k
WriteDMAReg(d, i, k, value) ==
    CASE k \in 0 .. 3  -> [d EXCEPT !.source = SetByte32(@, k, value)]
      [] k \in 4 .. 7  -> [d EXCEPT !.dest = SetByte32(@, k - 4, value)]
      [] k = 8  -> [d EXCEPT !.count = (@ \div W8) * W8 + value]
      [] k = 9  -> [d EXCEPT !.count = (@ % W8) + value * W8]
      [] k = 10 -> WriteDMACNT_H_Lo(d, value)
      [] k = 11 -> WriteDMACNT_H_Hi(d, i, value)

-----------------------------------------------------------------------------
(* GBAMemory: the bus.  The memory object is the record                    *)
(* [irq, video, dma, wram, halt, timer, ram, waitstate]; m_Rom is the     *)
(* cartridge image, a sequence of bytes whose length is m_RomSize; m_BIOS  *)
(* holds the built-in stub, the image the constructor installs when no     *)
(* BIOS is supplied.  No backup memory is attached (m_Backup == nullptr),  *)
(* so page 0xE reads as 0 and ignores writes.                              *)

hle_bios ==
    << 6, 0, 0, 234,   0, 0, 160, 225,   0, 0, 160, 225,   0, 0, 160, 225,
       0, 0, 160, 225,   0, 0, 160, 225,   1, 0, 0, 234,   0, 0, 160, 225,
       2, 243, 160, 227,   15, 80, 45, 233,   1, 3, 160, 227,
       0, 224, 143, 226,   4, 240, 16, 229,   15, 80, 189, 232,
       4, 240, 94, 226,   0, 0, 160, 225 >>

m_BIOS(o) == IF o < Len(hle_bios) THEN hle_bios[o + 1] ELSE 0

\* the members the constructor zeroes: the timers, the waitstate
\* configuration and the RAM regions (a region is the map of its cells
\* that were written; every other cell holds the 0 it was constructed with)
TimerInit ==
    [i \in 0 .. 3 |->
        [count |-> 0, reload |-> 0, clock |-> 0, ticks |-> 0,
         enable |-> FALSE, countup |-> FALSE, interrupt |-> FALSE]]

WaitstateInit ==
    [sram |-> 0, first |-> <<0, 0, 0>>, second |-> <<0, 0, 0>>,
     prefetch |-> FALSE]

NoCells == [o \in {} |-> 0]

RamInit == [iram |-> NoCells, pal |-> NoCells, vram |-> NoCells,
            oam |-> NoCells]

Load(m, o) == IF o \in DOMAIN m THEN m[o] ELSE 0

Store(m, o, value) ==
    IF o \in DOMAIN m THEN [m EXCEPT ![o] = value] ELSE (o :> value) @@ m

MakeBus(i, v, d, w, h) ==
    [irq |-> i, video |-> v, dma |-> d, wram |-> w, halt |-> h,
     timer |-> TimerInit, ram |-> RamInit, waitstate |-> WaitstateInit]

Page(offset)     == offset[1] \div W8                   \* offset >> 24
Offset24(offset) == (offset[1] % W8) * W16 + offset[2]  \* offset & 0xFFFFFF

\* ReadByte, case 4
IOReadByte(b, io) ==
    CASE io = VCOUNT     -> b.video.m_VCount % W8
      [] io = REG_IE     -> b.irq.ie % W8
      [] io = REG_IE + 1 -> b.irq.ie \div W8
      [] io = REG_IF     -> b.irq.if_ % W8
      [] io = REG_IF + 1 -> b.irq.if_ \div W8
      [] io = REG_IME     -> b.irq.ime % W8
      [] io = REG_IME + 1 -> b.irq.ime \div W8
      [] io \in {TM0CNT_L + 4 * n : n \in 0 .. 3} ->
            b.timer[(io - TM0CNT_L) \div 4].count % W8
      [] io \in {TM0CNT_L + 4 * n + 1 : n \in 0 .. 3} ->
            b.timer[(io - TM0CNT_L) \div 4].count \div W8
      [] io \in {TM0CNT_H + 4 * n : n \in 0 .. 3} ->
            LET t == b.timer[(io - TM0CNT_H) \div 4]
            IN  t.clock + (IF t.countup THEN 4 ELSE 0)
                    + (IF t.interrupt THEN 64 ELSE 0)
                    + (IF t.enable THEN 128 ELSE 0)
      [] io = WAITCNT ->
            b.waitstate.sram + 4 * b.waitstate.first[1]
                + 16 * b.waitstate.second[1] + 32 * b.waitstate.first[2]
                + 128 * b.waitstate.second[2]
      [] io = WAITCNT + 1 ->
            b.waitstate.first[3] + 4 * b.waitstate.second[3]
                + (IF b.waitstate.prefetch THEN 64 ELSE 0) + 128
      [] OTHER -> 0

\* the upper 32K are not folded onto the 32K below them
VRAMIndex_NoFold(io) == io % 131072

\* the index of m_VRAM an offset of page 6 stands for
VRAMIndex(io) ==
    IF io % 131072 >= 98304 THEN (io % 131072) - 32768 ELSE io % 131072

ReadByte(b, m_Rom, offset) ==
    LET page == Page(offset)
        io   == Offset24(offset)
    IN  CASE page \in {0, 1} -> IF io >= 16384 THEN 0 ELSE m_BIOS(io)
          [] page = 2 -> Load(b.wram, io % 262144)
          [] page = 3 -> Load(b.ram.iram, io % 32768)
          [] page = 4 -> IOReadByte(b, IF io % W16 = 2048 THEN io % W16 ELSE io)
          [] page = 5 -> Load(b.ram.pal, io % 1024)
          [] page = 6 -> Load(b.ram.vram, VRAMIndex(io))
          [] page = 7 -> Load(b.ram.oam, io % 1024)
          [] page = 8 -> IF io >= Len(m_Rom) THEN 0 ELSE m_Rom[io + 1]
          [] page = 9 -> IF io + 16777216 >= Len(m_Rom) THEN 0
                         ELSE m_Rom[io + 16777216 + 1]
          [] OTHER -> 0

ReadHWord(b, m_Rom, offset) ==
    ReadByte(b, m_Rom, offset)
        + W8 * ReadByte(b, m_Rom, Add32(offset, U32(1)))

ReadWord(b, m_Rom, offset) ==
    << ReadHWord(b, m_Rom, Add32(offset, U32(2))), ReadHWord(b, m_Rom, offset) >>

\* WriteByte, case 4: the switch on internal_offset
IOWriteByte(b, io, value) ==
    CASE io = DISPSTAT ->
            [b EXCEPT !.video = WriteDISPSTAT(@, FALSE, value)]
      [] io = DISPSTAT + 1 ->
            [b EXCEPT !.video = WriteDISPSTAT(@, TRUE, value)]
      [] io \in DMA0SAD .. DMA0SAD + 47 ->
            LET i == (io - DMA0SAD) \div 12
                k == (io - DMA0SAD) % 12
            IN  [b EXCEPT !.dma.ch[i] = WriteDMAReg(@, i, k, value)]
      [] io = REG_IE      -> [b EXCEPT !.irq.ie = WriteIE(@, FALSE, value)]
      [] io = REG_IE + 1  -> [b EXCEPT !.irq.ie = WriteIE(@, TRUE, value)]
      [] io = REG_IF      -> [b EXCEPT !.irq.if_ = WriteIF(@, FALSE, value)]
      [] io = REG_IF + 1  -> [b EXCEPT !.irq.if_ = WriteIF(@, TRUE, value)]
      [] io = REG_IME     -> [b EXCEPT !.irq.ime = WriteIME(@, FALSE, value)]
      [] io = REG_IME + 1 -> [b EXCEPT !.irq.ime = WriteIME(@, TRUE, value)]
      [] io = HALTCNT     -> [b EXCEPT !.halt = WriteHALTCNT(value)]
      [] io \in {TM0CNT_L + 4 * n : n \in 0 .. 3} ->
            [b EXCEPT !.timer[(io - TM0CNT_L) \div 4].reload =
                          (@ \div W8) * W8 + value]
      [] io \in {TM0CNT_L + 4 * n + 1 : n \in 0 .. 3} ->
            [b EXCEPT !.timer[(io - TM0CNT_L) \div 4].reload =
                          (@ % W8) + value * W8]
      [] io \in {TM0CNT_H + 4 * n : n \in 0 .. 3} ->
            [b EXCEPT !.timer[(io - TM0CNT_H) \div 4] =
                          [@ EXCEPT !.clock = value % 4,
                                    !.countup = (Bit(value, 2) = 1),
                                    !.interrupt = (Bit(value, 6) = 1),
                                    !.enable = (Bit(value, 7) = 1)]]
      [] io = WAITCNT ->
            [b EXCEPT !.waitstate =
                [@ EXCEPT !.sram = value % 4,
                          !.first[1] = (value \div 4) % 4,
                          !.second[1] = (value \div 16) % 2,
                          !.first[2] = (value \div 32) % 4,
                          !.second[2] = value \div 128]]
      [] io = WAITCNT + 1 ->
            [b EXCEPT !.waitstate =
                [@ EXCEPT !.first[3] = value % 4,
                          !.second[3] = (value \div 4) % 2,
                          !.prefetch = (Bit(value, 6) = 1)]]
      [] OTHER -> b

\* WriteHWord, cases 5, 6 and 7: the two bytes go to the video memory
WriteVideoHWord(b, page, io, value) ==
    CASE page = 5 ->
            [b EXCEPT !.ram.pal =
                Store(Store(@, io % 1024, value % W8),
                      (io + 1) % 1024, value \div W8)]
      [] page = 6 ->
            [b EXCEPT !.ram.vram =
                Store(Store(@, VRAMIndex(io), value % W8),
                      VRAMIndex(io) + 1, value \div W8)]
      [] page = 7 ->
            [b EXCEPT !.ram.oam =
                Store(Store(@, io % 1024, value % W8),
                      (io + 1) % 1024, value \div W8)]

WriteByte(b, offset, value) ==
    LET page == Page(offset)
        io   == Offset24(offset)
    IN  CASE page = 2 -> [b EXCEPT !.wram = Store(@, io % 262144, value)]
          [] page = 3 -> [b EXCEPT !.ram.iram = Store(@, io % 32768, value)]
          [] page \in {5, 6, 7} ->
                \* WriteHWord(offset & ~1, (value << 8) | value)
                WriteVideoHWord(b, page, (io \div 2) * 2, value * W8 + value)
          [] page = 4 ->
                IF io >= 1023 /\ io % W16 # 2048 THEN b
                ELSE IOWriteByte(b, IF io % W16 = 2048 THEN io % W16 ELSE io,
                                 value)
          [] OTHER -> b

\* the high byte of the halfword is dropped
WriteHWord_LowByte(b, offset, value) == WriteByte(b, offset, value % W8)

WriteHWord(b, offset, value) ==
    IF Page(offset) % 16 \in {5, 6, 7}
    THEN WriteVideoHWord(b, Page(offset) % 16, Offset24(offset), value)
    ELSE WriteByte(WriteByte(b, offset, value % W8),
                   Add32(offset, U32(1)), value \div W8)

\* no word address names a timer: the switch is left out
TimerAt_None(offset) == 4

\* the timer named by a word address, or 4: the switch at the end of
\* WriteWord
TimerAt(offset) ==
    IF offset[1] = 1024 /\ offset[2] \in {TM0CNT_L + 4 * n : n \in 0 .. 3}
    THEN (offset[2] - TM0CNT_L) \div 4 ELSE 4

\* `m_Timer[n].count = m_Timer[n].reload`
LoadCount(t) == [t EXCEPT !.count = t.reload]

\* the `if (value & (1 << 23))` at the end of WriteWord
WriteWordTimer(b, offset, value) ==
    IF Bit(value[1], 7) = 1 /\ TimerAt(offset) < 4
    THEN [b EXCEPT !.timer[TimerAt(offset)] = LoadCount(@)]
    ELSE b

WriteWord(b, offset, value) ==
    WriteWordTimer(WriteHWord(WriteHWord(b, offset, value[2]),
                              Add32(offset, U32(2)), value[1]),
                   offset, value)

-----------------------------------------------------------------------------
(* GBAMemory::RunTimer: one tick of the four timers.  `overflow` is the    *)
(* local the loop carries from one timer to the next.                      *)

tmr_cycles == <<1, 64, 256, 1024>>

\* the prescaler boundary taken one tick late
TimerFires_Late(t, overflow) ==
    \/ t.countup /\ overflow
    \/ ~t.countup /\ t.ticks + 1 > tmr_cycles[t.clock + 1]

\* the condition of the inner `if` for timer t; ++ticks is evaluated only
\* when countup is off
TimerFires(t, overflow) ==
    \/ t.countup /\ overflow
    \/ ~t.countup /\ t.ticks + 1 >= tmr_cycles[t.clock + 1]

TimerBit(i) == 8 * 2^i                     \* 8 << i

RECURSIVE RunTimerFrom(_, _, _)
RunTimerFrom(b, i, overflow) ==
    IF i = 4 THEN b
    ELSE LET t  == b.timer[i]
             t1 == IF t.countup THEN t ELSE [t EXCEPT !.ticks = @ + 1]
         IN  IF ~t.enable THEN RunTimerFrom(b, i + 1, overflow)
             ELSE IF ~TimerFires(t, overflow)
             THEN RunTimerFrom([b EXCEPT !.timer[i] = t1], i + 1, overflow)
             ELSE IF t.count # 65535
             THEN RunTimerFrom(
                      [b EXCEPT !.timer[i] =
                          [t1 EXCEPT !.ticks = 0, !.count = @ + 1]],
                      i + 1, FALSE)
             ELSE RunTimerFrom(
                      [b EXCEPT !.timer[i] =
                                    [t1 EXCEPT !.ticks = 0,
                                               !.count = t.reload],
                                !.irq.if_ = RaiseIF(@, t.interrupt,
                                                    TimerBit(i))],
                      i + 1, TRUE)

RunTimer(b) == RunTimerFrom(b, 0, FALSE)

-----------------------------------------------------------------------------
(* GBAMemory::RunDMA: one pass over the four channels.                     *)

wsn_table  == <<4, 3, 2, 8>>
wss0_table == <<2, 1>>

\* SequentialAccess, with m_SaveType == SRAM as the constructor leaves it
SequentialAccess(b, offset, word) ==
    LET page == Page(offset)
    IN  CASE page = 2       -> IF word THEN 6 ELSE 3
          [] page \in {5, 6} -> IF word THEN 2 ELSE 1
          [] page = 8       ->
                IF word THEN 1 + 2 * wsn_table[b.waitstate.first[1] + 1]
                ELSE 1 + wsn_table[b.waitstate.first[1] + 1]
          [] page = 14      -> 5
          [] OTHER          -> 1

NonSequentialAccess(b, offset, word) ==
    IF Page(offset) = 8
    THEN IF word
         THEN 1 + wss0_table[b.waitstate.second[1] + 1]
                + wsn_table[b.waitstate.first[1] + 1]
         ELSE 1 + wss0_table[b.waitstate.second[1] + 1]
    ELSE SequentialAccess(b, offset, word)

AlignWord(a)  == <<a[1], (a[2] \div 4) * 4>>     \* a & ~3
AlignHWord(a) == <<a[1], (a[2] \div 2) * 2>>     \* a & ~1

\* an address that never moves, whatever the control says
DMAAdvance_Fixed(a, control, unit) == a

\* the address update after one unit
DMAAdvance(a, control, unit) ==
    IF control = DMA_INCREMENT \/ control = DMA_RELOAD THEN Add32(a, unit)
    ELSE IF control = DMA_DECREMENT THEN Sub32(a, unit)
    ELSE a

\* while (m_DMA[i].count_int != 0) { ... }; loc holds the locals
\* dest_control, source_control and transfer_words read before the loop
RECURSIVE DMATransferLoop(_, _, _, _)
DMATransferLoop(b, m_Rom, i, loc) ==
    IF b.dma.ch[i].count_int = 0 THEN b
    ELSE LET d    == b.dma.ch[i]
             unit == IF loc.words THEN U32(4) ELSE U32(2)
             b1   == IF loc.words
                     THEN WriteWord(b, AlignWord(d.dest_int),
                                    ReadWord(b, m_Rom, AlignWord(d.source_int)))
                     ELSE WriteHWord(b, AlignHWord(d.dest_int),
                                     ReadHWord(b, m_Rom,
                                               AlignHWord(d.source_int)))
             cyc  == SequentialAccess(b, d.dest_int, loc.words)
                        + SequentialAccess(b, d.source_int, loc.words)
             d1   == b1.dma.ch[i]
             b2   == [b1 EXCEPT
                        !.dma.m_DMACycles = @ + cyc,
                        !.dma.ch[i].dest_int =
                            DMAAdvance(d1.dest_int, loc.dest_control, unit),
                        !.dma.ch[i].source_int =
                            DMAAdvance(d1.source_int, loc.source_control, unit),
                        !.dma.ch[i].count_int = (d1.count_int + W16 - 1) % W16]
         IN  DMATransferLoop(b2, m_Rom, i, loc)

\* the reschedule-or-disable step and the interrupt after the loop
DMAFinish(b, i, loc) ==
    LET d  == b.dma.ch[i]
        b1 == IF d.repeat
              THEN [b EXCEPT
                      !.dma.ch[i].count_int = LatchCount(d.count, i),
                      !.dma.ch[i].dest_int =
                          IF loc.dest_control = DMA_RELOAD
                          THEN And32(d.dest, dma_dest_mask[i + 1])
                          ELSE @]
              ELSE [b EXCEPT !.dma.ch[i].enable = FALSE]
    IN  IF b1.dma.ch[i].interrupt
        THEN [b1 EXCEPT !.irq.if_ = Or(@, 256 * 2^i)]
        ELSE b1

\* the body of the for loop, for channel i
RunDMAChannel(b, m_Rom, i) ==
    LET d == b.dma.ch[i]
    IN  IF ~d.enable THEN b
        ELSE LET start ==
                     CASE d.start_time = DMA_IMMEDIATE -> TRUE
                       [] d.start_time = DMA_VBLANK -> b.video.m_VBlankDMA
                       [] d.start_time = DMA_HBLANK -> b.video.m_HBlankDMA
                       [] OTHER -> FALSE
                 b1 == [b EXCEPT
                          !.video.m_VBlankDMA =
                              IF d.start_time = DMA_VBLANK THEN FALSE ELSE @,
                          !.video.m_HBlankDMA =
                              IF d.start_time = DMA_HBLANK THEN FALSE ELSE @,
                          !.dma.m_DidTransfer = start,
                          !.dma.m_DMACycles = 2]
                 loc == [dest_control   |-> d.dest_control,
                         source_control |-> d.source_control,
                         words          |-> d.size = DMA_WORD]
             IN  IF start
                 THEN DMAFinish(DMATransferLoop(b1, m_Rom, i, loc), i, loc)
                 ELSE b1

\* channel i is enabled and its start condition holds
DMAStarts(b, i) ==
    /\ b.dma.ch[i].enable
    /\ \/ b.dma.ch[i].start_time = DMA_IMMEDIATE
       \/ b.dma.ch[i].start_time = DMA_VBLANK /\ b.video.m_VBlankDMA
       \/ b.dma.ch[i].start_time = DMA_HBLANK /\ b.video.m_HBlankDMA

RunDMA(b, m_Rom) ==
    LET b0 == RunDMAChannel(b, m_Rom, 0)
        b1 == RunDMAChannel(b0, m_Rom, 1)
        b2 == RunDMAChannel(b1, m_Rom, 2)
    IN  RunDMAChannel(b2, m_Rom, 3)

-----------------------------------------------------------------------------
(* ARM7::Step: the three-stage pipeline.  The decoder and the executor     *)
(* (ARMDecode, ARMExecute, THUMBDecode, THUMBExecute) are modelled for the *)
(* two instructions the guest programs below are made of: the             *)
(* unconditional branch and the no-operation move.                         *)

ARM_NOP   == <<57760, 0>>          \* 0xE1A00000, mov r0, r0
THUMB_NOP == <<0, 18112>>          \* 0x46C0, mov r8, r8

\* B with condition AL: bits 31..24 are 0xEA
ARMDecode(opcode) ==
    IF opcode[1] \div W8 = 234 THEN "branch"
    ELSE IF opcode = ARM_NOP THEN "nop" ELSE "other"

\* unconditional branch: bits 15..11 are 11100
THUMBDecode(opcode) ==
    IF opcode[2] \div 2048 = 28 THEN "branch"
    ELSE IF opcode = THUMB_NOP THEN "nop" ELSE "other"

\* the signed 24-bit word offset of B, shifted left by two
ARMBranchOffset(opcode) ==
    LET off == (opcode[1] % W8) * W16 + opcode[2]
    IN  IF off >= 2^23
        THEN Or32(U32((off - 2^23) * 4), <<65024, 0>>)
        ELSE U32(off * 4)

\* the signed 11-bit halfword offset of the Thumb B, shifted left by one
THUMBBranchOffset(opcode) ==
    LET off == opcode[2] % 2048
    IN  IF off >= 1024
        THEN Or32(U32((off - 1024) * 2), <<65535, 63488>>)
        ELSE U32(off * 2)

ARMExecute(c, opcode, decoded) ==
    IF decoded = "branch"
    THEN [c EXCEPT !.regs["r15"] = Add32(@, ARMBranchOffset(opcode)),
                   !.flush_pipe = TRUE]
    ELSE c

THUMBExecute(c, opcode, decoded) ==
    IF decoded = "branch"
    THEN [c EXCEPT !.regs["r15"] = Add32(@, THUMBBranchOffset(opcode)),
                   !.flush_pipe = TRUE]
    ELSE c

\* the pipeline slot fetched into, decoded and executed at each status
FetchSlot(status)   == CASE status \in {0, 3} -> 1 [] status \in {1, 4} -> 2
                         [] status = 2 -> 3
DecodeSlot(status)  == CASE status \in {1, 4} -> 1 [] status = 2 -> 2
                         [] status = 3 -> 3
\* execution of the word decoded in the same step, one step early
ExecuteSlot_Decoded(status) == DecodeSlot(status)

ExecuteSlot(status) == CASE status = 2 -> 1 [] status = 3 -> 2
                         [] status = 4 -> 3

\* the pipeline is refilled from the start after the third slot
NextPipeStatus_Restart(status) == IF status + 1 = 5 THEN 0 ELSE status + 1

\* the status after a step that did not flush: ++pipe_status == 5 -> 2
NextPipeStatus(status) == IF status + 1 = 5 THEN 2 ELSE status + 1

Step(c, b, m_Rom) ==
    LET thumb == And(c.cpsr[2], Thumb) = Thumb
        pc    == IF thumb THEN AlignHWord(c.regs["r15"])
                 ELSE AlignWord(c.regs["r15"])
        \* the Thumb chain ends in an else; the ARM switch has no default
        st    == IF thumb /\ c.pipe_status > 4 THEN 4 ELSE c.pipe_status
        c0    == [c EXCEPT !.regs["r15"] = pc]
        fetch == IF thumb THEN <<0, ReadHWord(b, m_Rom, pc)>>
                 ELSE ReadWord(b, m_Rom, pc)
        c1    == IF st \in 0 .. 4
                 THEN [c0 EXCEPT !.pipe_opcode[FetchSlot(st)] = fetch]
                 ELSE c0
        c2    == IF st \in 1 .. 4
                 THEN [c1 EXCEPT !.pipe_decode[DecodeSlot(st)] =
                          IF thumb
                          THEN THUMBDecode(c1.pipe_opcode[DecodeSlot(st)])
                          ELSE ARMDecode(c1.pipe_opcode[DecodeSlot(st)])]
                 ELSE c1
        c3    == IF st \in 2 .. 4
                 THEN IF thumb
                      THEN THUMBExecute(c2, c2.pipe_opcode[ExecuteSlot(st)],
                                        c2.pipe_decode[ExecuteSlot(st)])
                      ELSE ARMExecute(c2, c2.pipe_opcode[ExecuteSlot(st)],
                                      c2.pipe_decode[ExecuteSlot(st)])
                 ELSE c2
    IN  IF c3.flush_pipe
        THEN [c3 EXCEPT !.pipe_status = 0, !.flush_pipe = FALSE]
        ELSE [c3 EXCEPT
                !.regs["r15"] = Add32(@, IF thumb THEN U32(2) ELSE U32(4)),
                !.pipe_status = NextPipeStatus(c3.pipe_status)]

-----------------------------------------------------------------------------
(* Values of the variables a specification leaves out.                     *)

NoWram  == [o \in {} |-> 0]
NoRom   == << >>
NoCpu   == [unused |-> TRUE]
NoReset == [pos |-> "done"]
NoSched == [pos |-> "idle"]

\* the memory object made of the current values of the variables
Bus ==
    [MakeBus(irq, video, dma, wram, halt) EXCEPT
        !.timer = timer, !.ram = ram, !.waitstate = waitstate]

SetBus(b) ==
    /\ irq' = b.irq
    /\ video' = b.video
    /\ dma' = b.dma
    /\ wram' = b.wram
    /\ timer' = b.timer
    /\ ram' = b.ram
    /\ waitstate' = b.waitstate
    /\ halt' = b.halt

-----------------------------------------------------------------------------
(* SpecIO: the guest writes the interrupt registers while devices raise    *)
(* requests.                                                               *)

\* the request bits the devices of this specification raise: VBlank,
\* VCount, DMA0, DMA3
RaisedInputs == {VBLANK_INTERRUPT, VCOUNT_INTERRUPT, 256, 2048}

IORegInputs  == {REG_IE, REG_IF, REG_IME}
HWordInputs  == {0, 256, 65535}
ByteInputs   == {1, 255}

InitIO ==
    /\ irq = InterruptInit
    /\ video = VideoInit
    /\ dma = DMAInit
    /\ wram = NoWram
    /\ timer = TimerInit
    /\ ram = RamInit
    /\ waitstate = WaitstateInit
    /\ halt = "RUN"
    /\ cpu = NoCpu
    /\ rom = NoRom
    /\ reset = NoReset
    /\ sched = NoSched
    /\ call = [op |-> "init"]

\* a device statement  m_Interrupt->if_ |= bit
RaiseInterrupt(bit) ==
    /\ irq' = [irq EXCEPT !.if_ = RaiseIF(@, TRUE, bit)]
    /\ call' = [op |-> "Raise", bit |-> bit, irq |-> irq]
    /\ UNCHANGED <<video, dma, wram, timer, ram, waitstate, halt, cpu, rom, reset, sched>>

GuestWriteHWord(io, value) ==
    /\ SetBus(WriteHWord(Bus, Add32(IOBase, U32(io)), value))
    /\ call' = [op |-> "WriteHWord", io |-> io, value |-> value, irq |-> irq]
    /\ UNCHANGED <<cpu, rom, reset, sched>>

GuestWriteByte(io, value) ==
    /\ SetBus(WriteByte(Bus, Add32(IOBase, U32(io)), value))
    /\ call' = [op |-> "WriteByte", io |-> io, value |-> value, irq |-> irq]
    /\ UNCHANGED <<cpu, rom, reset, sched>>

NextIO ==
    \/ \E bit \in RaisedInputs : RaiseInterrupt(bit)
    \/ \E io \in IORegInputs, value \in HWordInputs :
          GuestWriteHWord(io, value)
    \/ \E io \in IORegInputs, k \in {0, 1}, value \in ByteInputs :
          GuestWriteByte(io + k, value)

SpecIO == InitIO /\ [][NextIO]_vars

\* the 16-bit value a write at IF or IF+1 carries
C1_WrittenValue ==
    IF call.op = "WriteHWord" THEN call.value
    ELSE IF call.io = REG_IF THEN call.value ELSE call.value * W8

\* C1: a write of the 16-bit value w to IF leaves bit i of IF set exactly
\* when it was set before and bit i of w is clear (IF == f AND NOT w); a
\* byte write at IF carries the low byte of w and a byte write at IF+1 the
\* high byte; IE and IME are unchanged by the write.
C1_IFWriteAcknowledges ==
    (call.op \in {"WriteHWord", "WriteByte"}
        /\ call.io \in {REG_IF, REG_IF + 1})
    => /\ \A i \in 0 .. 15 :
            Bit(irq.if_, i) = Bit(call.irq.if_, i) * (1 - Bit(C1_WrittenValue, i))
       /\ irq.ie = call.irq.ie
       /\ irq.ime = call.irq.ime

\* C1 witness: a halfword write to IF that cleared a pending high-byte
\* request and kept a pending low-byte one, with IE and IME non-zero.
C1_Witness ==
    /\ call.op = "WriteHWord"
    /\ call.io = REG_IF
    /\ call.value = 256
    /\ call.irq.if_ = 257
    /\ irq.if_ = 1
    /\ irq.ie # 0
    /\ irq.ime # 0

-----------------------------------------------------------------------------
(* SpecPPU: the guest programs DISPSTAT on the constructed machine and the *)
(* PPU is stepped, tick by tick, through whole frames.                     *)

\* DISPSTAT low byte: no interrupt enabled, VBlank alone, or VBlank, HBlank
\* and VCount
DispstatInputs == {0, 8, 56}

InitPPU ==
    /\ \E value \in DispstatInputs :
          video = WriteDISPSTAT(VideoInit, FALSE, value)
    /\ irq = InterruptInit
    /\ dma = DMAInit
    /\ wram = NoWram
    /\ timer = TimerInit
    /\ ram = RamInit
    /\ waitstate = WaitstateInit
    /\ halt = "RUN"
    /\ cpu = NoCpu
    /\ rom = NoRom
    /\ reset = NoReset
    /\ sched = NoSched
    /\ call = [op |-> "init"]

PPUStep ==
    LET r == VideoStep(video, irq.if_)
    IN  /\ video' = r.video
        /\ irq' = [irq EXCEPT !.if_ = r.if_]
        /\ call' = [op |-> "Step", m_VCount |-> video.m_VCount,
                    m_State |-> video.m_State, if_ |-> irq.if_,
                    m_Ticks |-> video.m_Ticks]
        /\ UNCHANGED <<dma, wram, timer, ram, waitstate, halt, cpu, rom, reset, sched>>

NextPPU == PPUStep

SpecPPU == InitPPU /\ [][NextPPU]_vars

\* C2: VCOUNT takes the values 0..227 in order and then wraps to 0: a step
\* either keeps the line, moves to the next line, or wraps from line 227 to
\* line 0; and the PPU is in the VBlank state exactly when
\* 160 <= VCOUNT <= 226.
C2_VCountRunsThrough227 ==
    /\ call.op = "Step" =>
          \/ video.m_VCount = call.m_VCount
          \/ video.m_VCount = call.m_VCount + 1
          \/ video.m_VCount = 0 /\ call.m_VCount = 227
    /\ (video.m_State = "VBlank") <=> (video.m_VCount \in 160 .. 226)

\* the PPU is in the VBlank state exactly on lines 160..226
C2_VBlankLines ==
    (video.m_State = "VBlank") <=> (video.m_VCount \in 160 .. 226)

-----------------------------------------------------------------------------
(* Guest programs.  A program is the sequence of its ARM words; the ROM    *)
(* image is the sequence of their bytes, least significant first.          *)

WordBytes(w) == <<w[2] % W8, w[2] \div W8, w[1] % W8, w[1] \div W8>>

RECURSIVE RomImage(_)
RomImage(words) ==
    IF words = << >> THEN << >>
    ELSE WordBytes(Head(words)) \o RomImage(Tail(words))

\* B with the 24-bit offset field off
ARM_B(off) == <<234 * W8 + off \div W16, off % W16>>

\* RomWords words of mov r0, r0
RomWords   == 4
NopProgram == [k \in 1 .. RomWords |-> ARM_NOP]

\* Step is modelled when the word it fetches is one of the two instructions
\* the executor is modelled for
StepModelled(c, b, m_Rom) ==
    LET thumb == And(c.cpsr[2], Thumb) = Thumb
    IN  IF thumb
        THEN THUMBDecode(<<0, ReadHWord(b, m_Rom, AlignHWord(c.regs["r15"]))>>)
                 \in {"branch", "nop"}
        ELSE ARMDecode(ReadWord(b, m_Rom, AlignWord(c.regs["r15"])))
                 \in {"branch", "nop"}

RECURSIVE StepTimes(_, _, _, _)
StepTimes(c, b, m_Rom, k) ==
    IF k = 0 THEN c ELSE StepTimes(Step(c, b, m_Rom), b, m_Rom, k - 1)

-----------------------------------------------------------------------------
(* SpecCPU: the public operations of ARM7 on the register file, called in  *)
(* any order on a core that has run up to MaxWarmup steps of a program of  *)
(* no-operations.  arm7.h, which holds the initial value of cpsr, is not   *)
(* part of the source at hand: the core starts in one of InitModes.        *)

MaxWarmup == 2
MaxCalls  == 2

CpsrInputs ==
    { U32(ARM7Mode.User),
      U32(ARM7Mode.IRQ + IRQDisable),
      U32(ARM7Mode.FIQ + Thumb),
      <<61440, ARM7Mode.SVC + 64>>,           \* N, Z, C, V and F set
      U32(ARM7Mode.System + Thumb + 64) }

\* one register of each banking class: banked in FIQ mode alone, banked in
\* every exception mode, never banked
RegInputs   == {8, 13, 15}
\* the modes the core is constructed in and the modes it is read through
InitModes   == {ARM7Mode.User, ARM7Mode.FIQ, ARM7Mode.SVC}
ReadModes   == {ARM7Mode.User, ARM7Mode.FIQ, ARM7Mode.IRQ}
ValueInputs == {<<51966, 47806>>}              \* 0xCAFEBABE

InitCPU ==
    /\ irq = InterruptInit
    /\ video = VideoInit
    /\ dma = DMAInit
    /\ wram = NoWram
    /\ timer = TimerInit
    /\ ram = RamInit
    /\ waitstate = WaitstateInit
    /\ halt = "RUN"
    /\ rom = RomImage(NopProgram)
    /\ \E mode \in InitModes, k \in 0 .. MaxWarmup :
          cpu = StepTimes(ARM7Init(mode), Bus, rom, k)
    /\ reset = NoReset
    /\ sched = NoSched
    /\ call = [op |-> "init", n |-> 0]

CPUCall(c, obs) ==
    /\ call.n < MaxCalls
    /\ cpu' = c
    /\ call' = obs @@ [cpu |-> cpu, n |-> call.n + 1]
    /\ UNCHANGED <<irq, video, dma, wram, timer, ram, waitstate, halt, rom, reset, sched>>

SetCurrentStatusRegister(value) ==
    CPUCall(SetCurrentStatusRegisterState(cpu, value),
            [op |-> "SetCurrentStatusRegister", value |-> value])

SetGeneralRegister(mode, r, value) ==
    CPUCall(SetGeneralRegisterState(cpu, mode, r, value),
            [op |-> "SetGeneralRegister", mode |-> mode, r |-> r,
             value |-> value])

\* after: the call this one follows, when that was a SetGeneralRegister
GetGeneralRegister(mode, r) ==
    CPUCall(GetGeneralRegisterState(cpu, mode, r),
            [op |-> "GetGeneralRegister", mode |-> mode, r |-> r,
             ret |-> GetGeneralRegisterValue(cpu, mode, r),
             after |-> IF call.op = "SetGeneralRegister"
                       THEN [set |-> TRUE, mode |-> call.mode, r |-> call.r,
                             value |-> call.value, cpu |-> call.cpu]
                       ELSE [set |-> FALSE]])

FireIRQ ==
    CPUCall(FireIRQState(cpu), [op |-> "FireIRQ"])

CPUStep ==
    /\ StepModelled(cpu, Bus, rom)
    /\ CPUCall(Step(cpu, Bus, rom), [op |-> "Step"])

NextCPU ==
    \/ \E value \in CpsrInputs : SetCurrentStatusRegister(value)
    \/ \E mode \in Modes, r \in RegInputs, value \in ValueInputs :
          SetGeneralRegister(mode, r, value)
    \/ \E mode \in ReadModes, r \in RegInputs : GetGeneralRegister(mode, r)
    \/ FireIRQ
    \/ CPUStep

SpecCPU == InitCPU /\ [][NextCPU]_vars

\* the address of the instruction in the execute stage
C4_Executing(c) ==
    Sub32(c.regs["r15"], IF Bit(c.cpsr[2], 5) = 1 THEN U32(4) ELSE U32(8))

\* C4: FireIRQ with CPSR.I == 0 sets r14_irq to the address of the
\* instruction that was executing plus 4, saves the old CPSR in SPSR_irq,
\* switches to IRQ mode, sets I, clears T, sets r15 to 0x18 and the pipeline
\* status to 0, and leaves the other CPSR bits, the other registers and the
\* other saved-status slots unchanged; with CPSR.I == 1 it changes nothing.
C4_FireIRQEntry ==
    call.op = "FireIRQ" =>
        IF Bit(call.cpu.cpsr[2], 7) = 0
        THEN /\ cpu.regs["r14_irq"] = Add32(C4_Executing(call.cpu), U32(4))
             /\ cpu.spsr["spsr_irq"] = call.cpu.cpsr
             /\ cpu.cpsr[2] % 32 = 18
             /\ Bit(cpu.cpsr[2], 7) = 1
             /\ Bit(cpu.cpsr[2], 5) = 0
             /\ cpu.regs["r15"] = <<0, 24>>
             /\ cpu.pipe_status = 0
             /\ cpu.cpsr[1] = call.cpu.cpsr[1]
             /\ \A i \in {6} \cup (8 .. 15) :
                   Bit(cpu.cpsr[2], i) = Bit(call.cpu.cpsr[2], i)
             /\ \A p \in PhysRegs \ {"r14_irq", "r15"} :
                   cpu.regs[p] = call.cpu.regs[p]
             /\ \A sl \in SpsrSlots \ {"spsr_irq"} :
                   cpu.spsr[sl] = call.cpu.spsr[sl]
        ELSE cpu = call.cpu

\* C4 witness: an IRQ taken in Thumb state from FIQ mode with the pipeline
\* full, so that the return address is r15 itself and T is cleared.
C4_Witness ==
    /\ call.op = "FireIRQ"
    /\ Bit(call.cpu.cpsr[2], 7) = 0
    /\ Bit(call.cpu.cpsr[2], 5) = 1
    /\ call.cpu.cpsr[2] % 32 = 17
    /\ call.cpu.pipe_status = 2
    /\ cpu.regs["r14_irq"] = call.cpu.regs["r15"]
    /\ cpu.regs["r15"] = <<0, 24>>
    /\ cpu.pipe_status = 0

\* (m1, r) and (m2, r) name the same physical register
C5_SamePhysical(m1, m2, r) ==
    \/ r \in (0 .. 7) \cup {15}
    \/ r \in 8 .. 12 /\ ((m1 = 17) <=> (m2 = 17))
    \/ r \in {13, 14} /\ (m1 = m2 \/ {m1, m2} \subseteq {16, 31})

\* C5: for modes m, m' and register r, the value written through
\* SetGeneralRegister(m, r, v) is what GetGeneralRegister(m', r) returns
\* exactly when (m, r) and (m', r) name the same physical register (r0-r7
\* and r15 always, r8-r12 unless exactly one of m, m' is FIQ, r13 and r14
\* only for m = m' or between User and System); otherwise the read returns
\* what it returned before the write; and the current mode is the same
\* before and after either accessor.
C5_RegisterRoundTrip ==
    /\ call.op = "SetGeneralRegister" =>
          /\ \A m2 \in Modes :
                GetGeneralRegisterValue(cpu, m2, call.r) =
                    IF C5_SamePhysical(call.mode, m2, call.r)
                    THEN call.value
                    ELSE GetGeneralRegisterValue(call.cpu, m2, call.r)
          /\ cpu.cpsr = call.cpu.cpsr
    /\ call.op = "GetGeneralRegister" =>
          /\ cpu.cpsr = call.cpu.cpsr
          /\ (call.after.set /\ call.after.r = call.r) =>
                call.ret =
                    IF C5_SamePhysical(call.after.mode, call.mode, call.r)
                    THEN call.after.value
                    ELSE GetGeneralRegisterValue(call.after.cpu, call.mode,
                                                 call.r)

\* C5 witness: r13 written through IRQ mode on a core in Supervisor mode and
\* then read through User mode, which returns the User stack pointer and
\* not the value written.
C5_Witness ==
    /\ call.op = "GetGeneralRegister"
    /\ call.after.set
    /\ call.after.mode = 18
    /\ call.after.r = 13
    /\ call.r = 13
    /\ call.mode = 16
    /\ cpu.cpsr[2] % 32 = 19
    /\ call.ret = <<768, 32512>>
    /\ cpu.regs["r13_irq"] = call.after.value

\* C6: no reachable state has a current mode whose register table resolves
\* to another mode's bank: after construction and after every public
\* operation the table and the saved-status pointer are those
\* RemapRegisters selects for the mode bits of cpsr.
C6_TableMatchesMode ==
    /\ cpu.gprs = RemapRegisters(cpu).gprs
    /\ cpu.pspsr = RemapRegisters(cpu).pspsr

-----------------------------------------------------------------------------
(* CPU::Reset.  The function is modelled by its control positions: "start" *)
(* (called), "open" (core registers set and memory cleared, about to open  *)
(* bios.bin), "spin" (inside while (1) {}), "mmio" (BIOS read, about to    *)
(* reset the I/O state), "returned" (left through one of the early         *)
(* returns) and "done" (ran to the end).                                   *)

BiosFileInputs == {"absent", "present", "too_large", "short_read"}

\* cpu.Reset() followed by the five assignments to the core state
CPUResetCore(c) ==
    LET c0 == ARM7Init(ModeOf(c.cpsr))
    IN  RemapRegisters(
            [c0 EXCEPT !.regs["r13_svc"] = U32(50364384),
                       !.regs["r13_irq"] = U32(50364320),
                       !.regs["r13"]     = U32(50364160),
                       !.cpsr            = WithMode(c0.cpsr, ARM7Mode.User),
                       !.regs["r15"]     = U32(134217728)])

\* the position after the BIOS file has been opened, sized and read
ResetAfterOpen(file) ==
    CASE file = "absent"     -> "spin"
      [] file = "too_large"  -> "returned"
      [] file = "short_read" -> "returned"
      [] OTHER               -> "mmio"

InitReset ==
    /\ \E file \in BiosFileInputs : reset = [pos |-> "start", file |-> file]
    /\ \E mode \in Modes : cpu = ARM7Init(mode)
    /\ \E ie \in {0, 1}, if_ \in {0, 1}, ime \in {0, 1} :
          irq = [ie |-> ie, if_ |-> if_, ime |-> ime]
    /\ halt \in {"RUN", "HALT"}
    /\ video = VideoInit
    /\ dma = DMAInit
    /\ wram = NoWram
    /\ timer = TimerInit
    /\ ram = RamInit
    /\ waitstate = WaitstateInit
    /\ rom = NoRom
    /\ sched = NoSched
    /\ call = [op |-> "init"]

\* lines 32-48
ResetCore ==
    /\ reset.pos = "start"
    /\ cpu' = CPUResetCore(cpu)
    /\ reset' = [reset EXCEPT !.pos = "open"]
    /\ call' = [op |-> "Reset"]
    /\ UNCHANGED <<irq, video, dma, wram, timer, ram, waitstate, halt, rom, sched>>

\* lines 52-73
ResetOpenBios ==
    /\ reset.pos = "open"
    /\ reset' = [reset EXCEPT !.pos = ResetAfterOpen(reset.file)]
    /\ UNCHANGED <<irq, video, dma, wram, timer, ram, waitstate, halt, cpu, rom, sched, call>>

\* line 57: the loop has no side effect and no exit.  A build may keep it,
\* and then control stays here, or assume it terminates, and then control
\* falls to the return that follows it.
ResetSpin ==
    /\ reset.pos = "spin"
    /\ \/ UNCHANGED reset
       \/ reset' = [reset EXCEPT !.pos = "returned"]
    /\ UNCHANGED <<irq, video, dma, wram, timer, ram, waitstate, halt, cpu, rom, sched, call>>

\* lines 75-121
ResetMmio ==
    /\ reset.pos = "mmio"
    /\ irq' = InterruptInit
    /\ halt' = "RUN"
    /\ dma' = DMAInit
    /\ video' = VideoInit
    /\ reset' = [reset EXCEPT !.pos = "done"]
    /\ UNCHANGED <<wram, timer, ram, waitstate, cpu, rom, sched, call>>

NextReset ==
    \/ ResetCore
    \/ ResetOpenBios
    \/ ResetSpin
    \/ ResetMmio

SpecReset == InitReset /\ [][NextReset]_vars

\* C7: constructing the core with no BIOS image supplied and calling
\* Reset() completes: control never enters the endless loop, and once Reset
\* has returned the PC is 0x08000000, r13 is 0x03007F00, r13_svc is
\* 0x03007FE0, r13_irq is 0x03007FA0 and the mode is User.
C7_ResetWithoutBios ==
    reset.file = "absent" =>
        /\ reset.pos # "spin"
        /\ reset.pos \in {"returned", "done"} =>
              /\ cpu.regs["r15"] = <<2048, 0>>
              /\ GetGeneralRegisterValue(cpu, 16, 13) = <<768, 32512>>
              /\ cpu.regs["r13_svc"] = <<768, 32736>>
              /\ cpu.regs["r13_irq"] = <<768, 32672>>
              /\ cpu.cpsr[2] % 32 = 16

-----------------------------------------------------------------------------
(* SpecStep: the core is stepped from its constructed state, PC at the     *)
(* start of the ROM, through a program of ProgramWords words: a branch at  *)
(* word `first`, a branch back to the start of the ROM at 0x08000108, and  *)
(* no-operations elsewhere.  call.n counts the calls of Step up to         *)
(* MaxSteps.                                                               *)

ProgramWords == 72
MaxSteps     == 6

BranchBack == ARM_B(16777148)      \* at 0x08000108: B 0x08000000

Program(first, off) ==
    [k \in 1 .. ProgramWords |->
        IF k = first THEN ARM_B(off)
        ELSE IF k = 67 THEN BranchBack
        ELSE ARM_NOP]

\* branch offsets: +0x100, +0, -8 (a branch to itself)
BranchInputs == {64, 0, 16777214}
FirstInputs  == {1, 2}

InitStep ==
    /\ \E first \in FirstInputs, off \in BranchInputs :
          rom = RomImage(Program(first, off))
    /\ \E mode \in Modes : cpu = ARM7Init(mode)
    /\ irq = InterruptInit
    /\ video = VideoInit
    /\ dma = DMAInit
    /\ wram = NoWram
    /\ timer = TimerInit
    /\ ram = RamInit
    /\ waitstate = WaitstateInit
    /\ halt = "RUN"
    /\ reset = NoReset
    /\ sched = NoSched
    /\ call = [op |-> "init", n |-> 0]

StepCall ==
    /\ StepModelled(cpu, Bus, rom)
    /\ cpu' = Step(cpu, Bus, rom)
    /\ call' = [op |-> "Step", n |-> IF call.n < MaxSteps THEN call.n + 1
                                     ELSE call.n]
    /\ UNCHANGED <<irq, video, dma, wram, timer, ram, waitstate, halt, rom, reset, sched>>

NextStep == StepCall

SpecStep == InitStep /\ [][NextStep]_vars

\* the program of the claim: B #0x100 at 0x08000000
C8_Program == RomImage(Program(1, 64))

\* C8 as stated: from reset with PC == 0x08000000 in ARM state and
\* B #0x100 at 0x08000000, after exactly two calls to Step the PC is
\* 0x08000108 and the pipeline status is 0.
C8_BranchTakenAfterTwoSteps ==
    (rom = C8_Program /\ call.n = 2) =>
        /\ cpu.regs["r15"] = <<2048, 264>>
        /\ cpu.pipe_status = 0

\* C8 amended: the first two calls to Step only fill the pipeline (after
\* them the PC is 0x08000008 and the pipeline status is 2); the branch is
\* executed by the third call, after which the PC is 0x08000108 and the
\* pipeline status is 0.
C8_BranchTakenAfterThreeSteps ==
    rom = C8_Program =>
        /\ call.n = 2 => /\ cpu.regs["r15"] = <<2048, 8>>
                         /\ cpu.pipe_status = 2
        /\ call.n = 3 => /\ cpu.regs["r15"] = <<2048, 264>>
                         /\ cpu.pipe_status = 0

\* C8 witness: the third call to Step has executed the branch.
C8_Witness ==
    /\ rom = C8_Program
    /\ call.op = "Step"
    /\ call.n = 3
    /\ cpu.regs["r15"] = <<2048, 264>>
    /\ cpu.pipe_status = 0
    /\ cpu.pipe_opcode[1] = ARM_B(64)

-----------------------------------------------------------------------------
(* SpecSched: the inner loop of CPU::RunFor beside the PPU.  The PPU       *)
(* stands at the start of scanline 159, a state of SpecPPU; the guest has  *)
(* programmed DISPSTAT, IE and IME and spins in a branch to itself.  One   *)
(* iteration of the loop is two steps: SchedCheck (the pending test, the   *)
(* wake-up from HALT, and the signalling of the IRQ) and SchedRun          *)
(* (cpu.Run(), one Step).  cpu.SignalIrq() is FireIRQ.  The PPU is         *)
(* stepped up to MaxVBlankTicks ticks into the vertical blank.             *)

MaxVBlankTicks == 3

\* the PPU state at the first tick of a visible line
LineStart(v, line) ==
    [v EXCEPT !.m_VCount = line,
              !.m_VCountFlag = (line - 1 = v.m_VCountSetting)]

\* dma.IsRunning(): some channel is enabled and its start condition holds
DMAIsRunning(b) == \E i \in 0 .. 3 : DMAStarts(b, i)

\* everything enabled, then each enable withdrawn in turn, then a halted CPU
SchedInputs ==
    { [dispstat |-> 8, ie |-> 1, ime |-> 1, cpsr |-> 16,  halt |-> "RUN"],
      [dispstat |-> 0, ie |-> 1, ime |-> 1, cpsr |-> 16,  halt |-> "RUN"],
      [dispstat |-> 8, ie |-> 0, ime |-> 1, cpsr |-> 16,  halt |-> "RUN"],
      [dispstat |-> 8, ie |-> 1, ime |-> 0, cpsr |-> 16,  halt |-> "RUN"],
      [dispstat |-> 8, ie |-> 1, ime |-> 1, cpsr |-> 144, halt |-> "RUN"],
      [dispstat |-> 8, ie |-> 1, ime |-> 1, cpsr |-> 31,  halt |-> "HALT"] }

InitSched ==
    /\ \E in \in SchedInputs :
          /\ video = LineStart(WriteDISPSTAT(VideoInit, FALSE, in.dispstat),
                               159)
          /\ irq = [ie |-> in.ie, if_ |-> 0, ime |-> in.ime]
          /\ cpu = RemapRegisters([ARM7Init(ARM7Mode.User)
                                      EXCEPT !.cpsr = U32(in.cpsr)])
          /\ halt = in.halt
    /\ rom = RomImage(Program(1, 16777214))
    /\ dma = DMAInit
    /\ wram = NoWram
    /\ timer = TimerInit
    /\ ram = RamInit
    /\ waitstate = WaitstateInit
    /\ reset = NoReset
    /\ sched = [pos |-> "loop"]
    /\ call = [op |-> "init"]

SchedPPUStep ==
    /\ video.m_State # "VBlank" \/ video.m_Ticks < MaxVBlankTicks
    /\ LET r == VideoStep(video, irq.if_)
       IN  /\ video' = r.video
           /\ irq' = [irq EXCEPT !.if_ = r.if_]
    /\ call' = [op |-> "PPUStep", m_VCount |-> video.m_VCount]
    /\ UNCHANGED <<dma, wram, timer, ram, waitstate, halt, cpu, rom, reset, sched>>

\* the master enable is not looked at
IrqSignalled_NoIME(ime, fire) == fire # 0

\* the interrupt test of the loop: mmio.irq_ime && fire
IrqSignalled(ime, fire) == ime # 0 /\ fire # 0

\* lines 146-157 and 159-163; timers.Run advances the timers, by the one
\* tick of RunTimer
SchedCheck ==
    /\ sched.pos = "loop"
    /\ LET fire  == And(irq.ie, irq.if_)
           halt1 == IF halt = "HALT" /\ fire # 0 THEN "RUN" ELSE halt
           b     == [Bus EXCEPT !.halt = halt1]
       IN  IF DMAIsRunning(b)
           THEN /\ SetBus(RunDMA(b, rom))
                /\ UNCHANGED <<cpu, sched>>
           ELSE IF halt1 = "RUN"
           THEN /\ SetBus(b)
                /\ cpu' = IF IrqSignalled(irq.ime, fire)
                          THEN FireIRQState(cpu) ELSE cpu
                /\ sched' = [pos |-> "run"]
           ELSE /\ SetBus(RunTimer(b))
                /\ UNCHANGED <<cpu, sched>>
    /\ call' = [op |-> "SchedCheck", irq |-> irq, cpu |-> cpu, bus |-> Bus]
    /\ UNCHANGED <<rom, reset>>

\* line 158
SchedRun ==
    /\ sched.pos = "run"
    /\ StepModelled(cpu, Bus, rom)
    /\ cpu' = Step(cpu, Bus, rom)
    /\ sched' = [pos |-> "loop"]
    /\ call' = [op |-> "SchedRun"]
    /\ UNCHANGED <<irq, video, dma, wram, timer, ram, waitstate, halt, rom, reset>>

NextSched ==
    \/ SchedPPUStep
    \/ SchedCheck
    \/ SchedRun

SpecSched == InitSched /\ [][NextSched]_vars

-----------------------------------------------------------------------------
(* SpecDMA: the guest has programmed the address and count registers of    *)
(* the four channels; it then writes control registers and the scheduler   *)
(* runs DMA passes, MaxOps operations in all.  Work RAM is modelled by     *)
(* three regions of RegionBytes cells, at 0x02000000 (S0), 0x02000100 (D0) *)
(* and 0x02000200 (S1), each cell holding a value of its own; a pass is    *)
(* taken when every transfer it makes stays inside the regions.            *)

MaxCount == 4
MaxOps   == 3

RegionBytes == 4 * MaxCount + 4
RegionBases == {0, 256, 512}
Cells == UNION { b .. b + RegionBytes - 1 : b \in RegionBases }

WramInit == [o \in Cells |-> ((o % 256) * 5 + (o \div 256) * 101 + 1) % 256]

S0 == <<512, 0>>          \* 0x02000000
D0 == <<512, 256>>        \* 0x02000100
S1 == <<512, 512>>        \* 0x02000200

\* the source and destination of channel i under each layout
Layouts == {"plain", "overlap", "chain"}

LayoutSource(layout, i) ==
    IF layout = "chain" /\ i = 0 THEN S1 ELSE S0

LayoutDest(layout, i) ==
    CASE layout = "plain"   -> D0
      [] layout = "overlap" -> Add32(S0, U32(4))
      [] layout = "chain"   -> IF i = 0 THEN S0 ELSE D0

\* counts: zero, 1 .. MaxCount, and 0x4000, which the 14-bit mask clears
CountInputs == (0 .. MaxCount) \cup {16384}

\* DMAnCNT_H: enable, 32-bit, immediate (0x8400); the same with the IRQ flag
\* (0xC400); the same with repeat (0x8600); the same with source control
\* Decrement (0x8480)
DmaCtrlInputs == {33792, 50176, 34304, 33920}

DMARegister(i, base) == Add32(IOBase, U32(base + 12 * i))

\* the guest's three register writes for channel i
ProgramDMA(b, i, sad, dad, n) ==
    LET b1 == WriteWord(b, DMARegister(i, DMA0SAD), sad)
        b2 == WriteWord(b1, DMARegister(i, DMA0DAD), dad)
    IN  WriteHWord(b2, DMARegister(i, DMA0CNT_L), n)

\* the four channels are programmed one after the other; a write to a
\* register of channel i changes m_DMA[i] alone
ProgramLayout(b, layout, n) ==
    [b EXCEPT !.dma.ch =
        [i \in 0 .. 3 |->
            ProgramDMA(b, i, LayoutSource(layout, i),
                       LayoutDest(layout, i), n).dma.ch[i]]]

\* the transfer of channel i touches modelled cells only
TransferModelled(b, i) ==
    LET d    == b.dma.ch[i]
        unit == IF d.size = DMA_WORD THEN 4 ELSE 2
        src  == (Offset24(d.source_int) \div unit) * unit
        dst  == (Offset24(d.dest_int) \div unit) * unit
        len  == unit * d.count_int
        in(a) == \E base \in RegionBases :
                    base <= a /\ a + len <= base + RegionBytes
    IN  \/ d.count_int = 0
        \/ /\ d.source_control = DMA_INCREMENT
           /\ d.dest_control \in {DMA_INCREMENT, DMA_RELOAD}
           /\ Page(d.source_int) = 2
           /\ Page(d.dest_int) = 2
           /\ in(src)
           /\ in(dst)

InitDMA ==
    /\ \E layout \in Layouts, n \in CountInputs :
          LET b == ProgramLayout(
                       MakeBus(InterruptInit, VideoInit, DMAInit, WramInit,
                               "RUN"),
                       layout, n)
          IN  /\ irq = b.irq
              /\ video = b.video
              /\ dma = b.dma
              /\ wram = b.wram
              /\ timer = b.timer
              /\ ram = b.ram
              /\ waitstate = b.waitstate
              /\ halt = b.halt
    /\ cpu = NoCpu
    /\ rom = NoRom
    /\ reset = NoReset
    /\ sched = NoSched
    /\ call = [op |-> "init", n |-> 0]

GuestWriteDMACNT_H(i, value) ==
    /\ call.n < MaxOps
    /\ SetBus(WriteHWord(Bus, DMARegister(i, DMA0CNT_H), value))
    /\ call' = [op |-> "WriteDMACNT_H", i |-> i, value |-> value,
                dma |-> dma, n |-> call.n + 1]
    /\ UNCHANGED <<cpu, rom, reset, sched>>

RunDMAPass ==
    /\ call.n < MaxOps
    /\ \A i \in 0 .. 3 : DMAStarts(Bus, i) => TransferModelled(Bus, i)
    /\ SetBus(RunDMA(Bus, rom))
    /\ call' = [op |-> "RunDMA", dma |-> dma, wram |-> wram, irq |-> irq,
                n |-> call.n + 1]
    /\ UNCHANGED <<cpu, rom, reset, sched>>

NextDMA ==
    \/ \E i \in 0 .. 3, value \in DmaCtrlInputs : GuestWriteDMACNT_H(i, value)
    \/ RunDMAPass

SpecDMA == InitDMA /\ [][NextDMA]_vars

\* the channel-c case of the copy contract: the last operation was a DMA
\* pass that found channel c enabled, non-repeating, immediate, 32-bit, with
\* incrementing source and destination
C9_Case(c) ==
    /\ call.op = "RunDMA"
    /\ call.dma.ch[c].enable
    /\ ~call.dma.ch[c].repeat
    /\ call.dma.ch[c].start_time = DMA_IMMEDIATE
    /\ call.dma.ch[c].size = DMA_WORD
    /\ call.dma.ch[c].source_control = DMA_INCREMENT
    /\ call.dma.ch[c].dest_control = DMA_INCREMENT

\* the programmed count of channel c before the pass
C9_Count(c) == And(call.dma.ch[c].count, dma_count_mask[c + 1])

\* the bytes at a, a + 1, ... of a transfer of n words
C9_Range(a, n) ==
    { (Offset24(AlignWord(a)) % 262144) + k : k \in 0 .. 4 * n - 1 }

C9_SourceRange(c) == C9_Range(call.dma.ch[c].source_int, C9_Count(c))
C9_DestRange(c)   == C9_Range(call.dma.ch[c].dest_int, C9_Count(c))

\* the pass has copied n words for channel c, finished the channel and
\* raised its interrupt as its IRQ flag says
C9_Copied(c) ==
    LET d   == call.dma.ch[c]
        n   == C9_Count(c)
        src == Offset24(AlignWord(d.source_int)) % 262144
        dst == Offset24(AlignWord(d.dest_int)) % 262144
    IN  /\ \A k \in 0 .. 4 * n - 1 : wram[dst + k] = call.wram[src + k]
        /\ dma.ch[c].source_int = Add32(d.source_int, U32(4 * n))
        /\ dma.ch[c].dest_int = Add32(d.dest_int, U32(4 * n))
        /\ dma.ch[c].count_int = 0
        /\ ~dma.ch[c].enable
        /\ Bit(irq.if_, 8 + c) =
              IF d.interrupt THEN 1 ELSE Bit(call.irq.if_, 8 + c)

\* no other channel that transfers in the pass writes into the source or
\* the destination of channel c
C9_Undisturbed(c) ==
    \A j \in (0 .. 3) \ {c} :
        DMAStarts([dma |-> call.dma, video |-> video], j) =>
            C9_Range(call.dma.ch[j].dest_int, call.dma.ch[j].count_int)
                \cap (C9_SourceRange(c) \cup C9_DestRange(c)) = {}

\* C9, as stated: for an enabled non-repeating channel c with immediate
\* start, 32-bit size, incrementing source and destination and programmed
\* count n, one DMA pass leaves destination word k equal to the original
\* source word k for every k < n, moves exactly n words, leaves
\* count_int = 0, clears enable, and sets IF bit 0x100 << c iff the
\* channel's IRQ flag is set.
C9_PassCopiesWords ==
    \A c \in 0 .. 3 : C9_Case(c) => C9_Copied(c)

\* C9, amended: the same, for a programmed count of at least one word, when
\* the source and the destination ranges of channel c do not overlap and no
\* other channel transferring in the same pass writes into either of them.
C9_PassCopiesDisjointWords ==
    \A c \in 0 .. 3 :
        /\ C9_Case(c)
        /\ C9_Count(c) >= 1
        /\ C9_SourceRange(c) \cap C9_DestRange(c) = {}
        /\ C9_Undisturbed(c)
        => C9_Copied(c)

\* C9 witness: DMA0 with SAD = 0x02000000, DAD = 0x02000100, four words and
\* the IRQ flag has run alone: the sixteen bytes are copied and IF bit 0x100
\* is set.
C9_Witness ==
    /\ C9_Case(0)
    /\ C9_Count(0) = 4
    /\ call.dma.ch[0].source_int = S0
    /\ call.dma.ch[0].dest_int = D0
    /\ call.dma.ch[0].interrupt
    /\ C9_Undisturbed(0)
    /\ \A k \in 0 .. 15 : wram[256 + k] = call.wram[k]
    /\ \E k \in 0 .. 15 : call.wram[256 + k] # call.wram[k]
    /\ ~dma.ch[0].enable
    /\ Bit(irq.if_, 8) = 1
    /\ Bit(call.irq.if_, 8) = 0

\* C10: for every channel c, a DMAnCNT_H write that enables the channel
\* latches count_int to mask[c] + 1 (0x4000 for channels 0-2, 0x10000 for
\* channel 3) when the masked programmed count is 0, and to the masked
\* count n when it is not.
C10_ZeroCountLatchesMaskPlusOne ==
    \A c \in 0 .. 3 :
        (call.op = "WriteDMACNT_H" /\ call.i = c /\ call.value >= 32768) =>
            LET n == And(dma.ch[c].count, dma_count_mask[c + 1])
            IN  dma.ch[c].count_int =
                    IF n = 0 THEN dma_count_mask[c + 1] + 1 ELSE n

\* the latch on channels 0-2, whose mask + 1 fits the 16-bit count_int
C10_NarrowChannelsLatch ==
    \A c \in 0 .. 2 :
        (call.op = "WriteDMACNT_H" /\ call.i = c /\ call.value >= 32768) =>
            LET n == And(dma.ch[c].count, dma_count_mask[c + 1])
            IN  dma.ch[c].count_int =
                    IF n = 0 THEN dma_count_mask[c + 1] + 1 ELSE n

\* C11: after a 16-bit write of control value c to DMAnCNT_H (low byte,
\* then high byte), the decoded fields of channel n are the bit-fields of
\* c: dest_control = c[5..6], source_control = c[7..8], repeat = c[9],
\* size = c[10], DRQ = c[11], start = c[12..13], IRQ = c[14],
\* enable = c[15], for every c and every n in 0..3.
C11_ControlFieldsDecoded ==
    call.op = "WriteDMACNT_H" =>
        LET d == dma.ch[call.i]
            c == call.value
        IN  /\ d.dest_control = (c \div 32) % 4
            /\ d.source_control = (c \div 128) % 4
            /\ d.repeat = (Bit(c, 9) = 1)
            /\ d.size = Bit(c, 10)
            /\ d.gamepack_drq = (Bit(c, 11) = 1)
            /\ d.start_time = (c \div 4096) % 4
            /\ d.interrupt = (Bit(c, 14) = 1)
            /\ d.enable = (Bit(c, 15) = 1)

\* every field but source_control is decoded as the register map says
C11_OtherFieldsDecoded ==
    call.op = "WriteDMACNT_H" =>
        LET d == dma.ch[call.i]
            c == call.value
        IN  /\ d.dest_control = (c \div 32) % 4
            /\ d.source_control = 2 * Bit(c, 8)
            /\ d.repeat = (Bit(c, 9) = 1)
            /\ d.size = Bit(c, 10)
            /\ d.gamepack_drq = (Bit(c, 11) = 1)
            /\ d.start_time = (c \div 4096) % 4
            /\ d.interrupt = (Bit(c, 14) = 1)
            /\ d.enable = (Bit(c, 15) = 1)

-----------------------------------------------------------------------------
(* SpecIrq: the three interrupt sources of the bus.  The guest has         *)
(* programmed DISPSTAT, two timers and two DMA channels through their      *)
(* registers; the PPU is a few ticks before the end of a phase; then the   *)
(* PPU is stepped, the timers are ticked and DMA passes are run in any     *)
(* order.                                                                  *)

MaxIrqOps == 3

\* IF before the run: clear, or Serial and Gamepak pending (0x2080)
IrqIfInputs == {0, 8320}

\* DISPSTAT: nothing enabled, or the three enables with VCount setting 159
\* (0x9F38)
IrqDispstatInputs == {0, 40760}

\* the PPU one tick before it leaves a phase: <<m_State, m_Ticks, m_VCount>>
IrqPhases ==
    { <<"Scanline", 959, 159>>, <<"HBlank", 271, 159>>,
      <<"HBlank", 271, 158>>, <<"HBlank", 271, 10>>,
      <<"VBlank", 1231, 226>> }

IrqVideo(dispstat, phase) ==
    LET v == WriteHWord(MakeBus(InterruptInit, VideoInit, DMAInit, NoWram,
                                "RUN"),
                        Add32(IOBase, U32(DISPSTAT)), dispstat).video
    IN  [v EXCEPT !.m_State = phase[1],
                  !.m_Ticks = phase[2],
                  !.m_VCount = phase[3],
                  !.m_VCountFlag = (phase[3] = v.m_VCountSetting),
                  !.m_HBlankDMA = (phase[1] = "HBlank"),
                  !.m_VBlankDMA = (phase[1] = "VBlank")]

TimerRegister(n, base) == Add32(IOBase, U32(base + 4 * n))

\* TMnCNT_H: enabled (0x80), enabled with IRQ (0xC0), enabled with IRQ in
\* count-up mode (0xC4)
IrqTimerCtrl == {128, 192}

\* timer n is loaded with 0xFFFF and started by one 32-bit write, and so
\* is its successor, in count-up mode
ProgramTimers(b, n, ctrl) ==
    WriteWord(WriteWord(b, TimerRegister(n, TM0CNT_L), <<ctrl, 65535>>),
              TimerRegister((n + 1) % 4, TM0CNT_L), <<196, 65535>>)

\* DMAnCNT_H of channel i and of its successor: immediate without and with
\* the IRQ flag (0x8400, 0xC400); off, or started by VBlank with the IRQ
\* flag (0xD400)
IrqDmaCtrl == { <<33792, 0>>, <<50176, 54272>> }

ProgramChannels(b, i, ctrl) ==
    WriteHWord(WriteHWord(ProgramLayout(b, "plain", 1),
                          DMARegister(i, DMA0CNT_H), ctrl[1]),
               DMARegister((i + 1) % 4, DMA0CNT_H), ctrl[2])

InitIrq ==
    /\ \E f \in IrqIfInputs, dispstat \in IrqDispstatInputs,
          phase \in IrqPhases, n \in 0 .. 3, tc \in IrqTimerCtrl,
          i \in 0 .. 3, dc \in IrqDmaCtrl :
          LET b == ProgramChannels(
                       ProgramTimers(
                           MakeBus([InterruptInit EXCEPT !.if_ = f],
                                   IrqVideo(dispstat, phase), DMAInit,
                                   WramInit, "RUN"),
                           n, tc),
                       i, dc)
          IN  /\ irq = b.irq
              /\ video = b.video
              /\ dma = b.dma
              /\ wram = b.wram
              /\ timer = b.timer
              /\ ram = b.ram
              /\ waitstate = b.waitstate
              /\ halt = b.halt
    /\ cpu = NoCpu
    /\ rom = NoRom
    /\ reset = NoReset
    /\ sched = NoSched
    /\ call = [op |-> "init", n |-> 0]

IrqCall(op) ==
    [op |-> op, irq |-> irq, video |-> video, timer |-> timer, bus |-> Bus,
     n |-> call.n + 1]

IrqVideoStep ==
    LET r == VideoStep(video, irq.if_)
    IN  /\ call.n < MaxIrqOps
        /\ video' = r.video
        /\ irq' = [irq EXCEPT !.if_ = r.if_]
        /\ call' = IrqCall("Step")
        /\ UNCHANGED <<dma, wram, timer, ram, waitstate, halt, cpu, rom,
                       reset, sched>>

IrqRunTimer ==
    /\ call.n < MaxIrqOps
    /\ SetBus(RunTimer(Bus))
    /\ call' = IrqCall("RunTimer")
    /\ UNCHANGED <<cpu, rom, reset, sched>>

IrqRunDMA ==
    /\ call.n < MaxIrqOps
    /\ SetBus(RunDMA(Bus, rom))
    /\ call' = IrqCall("RunDMA")
    /\ UNCHANGED <<cpu, rom, reset, sched>>

NextIrq == IrqVideoStep \/ IrqRunTimer \/ IrqRunDMA

SpecIrq == InitIrq /\ [][NextIrq]_vars

\* the sum of the bits bit(k) of the sources k in 0 .. 3 that raised
BitsOf(raised, bit(_)) ==
    (IF 0 \in raised THEN bit(0) ELSE 0) + (IF 1 \in raised THEN bit(1) ELSE 0)
        + (IF 2 \in raised THEN bit(2) ELSE 0)
        + (IF 3 \in raised THEN bit(3) ELSE 0)

\* the carry that reaches timer i of ts: the latest enabled timer below i
\* that counted has overflowed
RECURSIVE TimerCarry(_, _)
TimerOverflows(ts, i) ==
    /\ ts[i].enable
    /\ TimerFires(ts[i], TimerCarry(ts, i))
    /\ ts[i].count = 65535

TimerCarry(ts, i) ==
    IF i = 0 THEN FALSE
    ELSE IF ts[i - 1].enable /\ TimerFires(ts[i - 1], TimerCarry(ts, i - 1))
         THEN ts[i - 1].count = 65535
         ELSE TimerCarry(ts, i - 1)

\* the IF bits the latest operation owes: one bit per source that occurred
\* with its IRQ enable on
C12_Owed ==
    CASE call.op = "Step" ->
            LET v == call.video
            IN  (IF v.m_State = "HBlank" /\ video.m_State = "VBlank"
                    /\ v.m_VBlankIRQ THEN 1 ELSE 0)
                + (IF v.m_State = "Scanline" /\ video.m_State = "HBlank"
                      /\ v.m_HBlankIRQ THEN 2 ELSE 0)
                + (IF video.m_VCount # v.m_VCount
                      /\ v.m_VCount = v.m_VCountSetting
                      /\ v.m_VCountIRQ THEN 4 ELSE 0)
      [] call.op = "RunTimer" ->
            BitsOf({i \in 0 .. 3 : TimerOverflows(call.timer, i)
                                      /\ call.timer[i].interrupt},
                   LAMBDA i : 8 * 2^i)
      [] call.op = "RunDMA" ->
            BitsOf({c \in 0 .. 3 : DMAStarts(call.bus, c)
                                      /\ call.bus.dma.ch[c].interrupt},
                   LAMBDA c : 256 * 2^c)
      [] OTHER -> 0

\* C12: every interrupt source raises exactly its own IF bit: VBlank entry
\* 1, HBlank entry 2, VCount match 4, overflow of timer i 8 << i, completion
\* of DMA channel c 256 << c, each only when the source's IRQ enable is on,
\* and every other IF bit keeps its value.
C12_SourcesRaiseOwnBit ==
    call.op \in {"Step", "RunTimer", "RunDMA"} =>
        irq.if_ = Or(call.irq.if_, C12_Owed)

\* Serial and Gamepak were pending and still are, and a PPU bit, a timer
\* bit and a DMA bit have been raised next to them
C12_Witness ==
    /\ call.op \in {"Step", "RunTimer", "RunDMA"}
    /\ C12_Owed # 0
    /\ And(irq.if_, 8320) = 8320
    /\ And(irq.if_, 7) # 0
    /\ And(irq.if_, 120) # 0
    /\ And(irq.if_, 3840) # 0

-----------------------------------------------------------------------------
(* SpecTimer: on the constructed machine the guest writes the registers of *)
(* two timers with accesses of every width, and the timers are ticked.     *)

MaxTimerOps == 4

TimerInputs == {0, 1}

\* 8-bit writes: 0xFF to either byte of TMnCNT_L
TimerByteInputs == { [k |-> 0, value |-> 255], [k |-> 1, value |-> 255] }

\* 16-bit writes: reload 0xFFFF to TMnCNT_L; enable (0x80) and enable in
\* count-up mode (0x84) to TMnCNT_H
TimerHWordInputs ==
    { [base |-> TM0CNT_L, value |-> 65535], [base |-> TM0CNT_H, value |-> 128],
      [base |-> TM0CNT_H, value |-> 132] }

\* 32-bit writes to TMnCNT_L: reload 0xFFFF with enable, with enable in
\* count-up mode, and reload 0x1234 with the timer left off
TimerWordInputs == { <<128, 65535>>, <<132, 65535>>, <<0, 4660>> }

InitTimer ==
    /\ irq = InterruptInit
    /\ video = VideoInit
    /\ dma = DMAInit
    /\ wram = NoWram
    /\ timer = TimerInit
    /\ ram = RamInit
    /\ waitstate = WaitstateInit
    /\ halt = "RUN"
    /\ cpu = NoCpu
    /\ rom = NoRom
    /\ reset = NoReset
    /\ sched = NoSched
    /\ call = [op |-> "init", n |-> 0, ticks |-> 0]

TimerCall(op, i, k, value) ==
    [op |-> op, i |-> i, k |-> k, value |-> value, timer |-> timer,
     n |-> call.n + 1,
     ticks |-> IF op = "RunTimer" THEN call.ticks + 1 ELSE call.ticks]

GuestTimerWriteByte(i, in) ==
    /\ call.n < MaxTimerOps
    /\ SetBus(WriteByte(Bus, TimerRegister(i, TM0CNT_L + in.k), in.value))
    /\ call' = TimerCall("WriteByte", i, in.k, in.value)
    /\ UNCHANGED <<cpu, rom, reset, sched>>

GuestTimerWriteHWord(i, in) ==
    /\ call.n < MaxTimerOps
    /\ SetBus(WriteHWord(Bus, TimerRegister(i, in.base), in.value))
    /\ call' = TimerCall("WriteHWord", i, in.base - TM0CNT_L, in.value)
    /\ UNCHANGED <<cpu, rom, reset, sched>>

GuestTimerWriteWord(i, value) ==
    /\ call.n < MaxTimerOps
    /\ SetBus(WriteWord(Bus, TimerRegister(i, TM0CNT_L), value))
    /\ call' = TimerCall("WriteWord", i, 0, value)
    /\ UNCHANGED <<cpu, rom, reset, sched>>

TimerTick ==
    /\ call.n < MaxTimerOps
    /\ SetBus(RunTimer(Bus))
    /\ call' = TimerCall("RunTimer", 0, 0, 0)
    /\ UNCHANGED <<cpu, rom, reset, sched>>

NextTimer ==
    \/ \E i \in TimerInputs, in \in TimerByteInputs : GuestTimerWriteByte(i, in)
    \/ \E i \in TimerInputs, in \in TimerHWordInputs :
          GuestTimerWriteHWord(i, in)
    \/ \E i \in TimerInputs, value \in TimerWordInputs :
          GuestTimerWriteWord(i, value)
    \/ TimerTick

SpecTimer == InitTimer /\ [][NextTimer]_vars

\* the first tick is taken with timer 0 at prescaler 1, reload 0xFFFF and
\* enabled, and timer 1 enabled in count-up mode with count 0
C13_Case ==
    /\ call.op = "RunTimer"
    /\ call.ticks = 1
    /\ call.timer[0].enable
    /\ ~call.timer[0].countup
    /\ call.timer[0].clock = 0
    /\ call.timer[0].reload = 65535
    /\ call.timer[1].enable
    /\ call.timer[1].countup
    /\ call.timer[1].count = 0

\* C13: with timer 0 programmed through its registers with prescaler 1 and
\* reload 0xFFFF and enabled, and timer 1 enabled in count-up mode with
\* count 0, after exactly one timer tick timer 0 has overflowed (its count
\* is reloaded to 0xFFFF) and timer 1's count is 1.
C13_CascadeAfterOneTick ==
    C13_Case => timer[0].count = 65535 /\ timer[1].count = 1

\* the cascade is taken when the write that started timer 0 was the 32-bit
\* one, which loads the count
C13_CascadeAfterWordWrite ==
    C13_Case /\ call.timer[0].count = 65535 =>
        timer[0].count = 65535 /\ timer[1].count = 1

\* the latest operation is a write that covers TMnCNT_L
C14_Case ==
    \/ call.op \in {"WriteByte", "WriteWord"}
    \/ call.op = "WriteHWord" /\ call.k = 0

\* the reload register of timer call.i holds what the write put there
C14_ReloadStored ==
    LET r   == timer[call.i].reload
        old == call.timer[call.i].reload
    IN  CASE call.op = "WriteByte" /\ call.k = 0 ->
                r = (old \div W8) * W8 + call.value
          [] call.op = "WriteByte" /\ call.k = 1 ->
                r = call.value * W8 + (old % W8)
          [] call.op = "WriteHWord" -> r = call.value
          [] call.op = "WriteWord" -> r = call.value[2]

\* C14: a guest write of any width (8, 16 or 32 bit) that covers TMnCNT_L
\* stores the written value into timer n's reload register and leaves
\* timer n's current count unchanged.
C14_WriteKeepsCount ==
    C14_Case =>
        /\ C14_ReloadStored
        /\ timer[call.i].count = call.timer[call.i].count

\* C14, amended: the write stores the reload; the count is unchanged by an
\* 8-bit or 16-bit write and by a 32-bit write whose bit 23 is clear, and
\* a 32-bit write to TMnCNT_L whose bit 23 is set loads the count with the
\* reload value just written.
C14_WriteLoadsCountOnBit23 ==
    C14_Case =>
        /\ C14_ReloadStored
        /\ timer[call.i].count =
              IF call.op = "WriteWord" /\ Bit(call.value[1], 7) = 1
              THEN call.value[2]
              ELSE call.timer[call.i].count

\* a 32-bit write with bit 23 set has replaced a count of 0 by 0xFFFF
C14_Witness ==
    /\ call.op = "WriteWord"
    /\ Bit(call.value[1], 7) = 1
    /\ call.timer[call.i].count = 0
    /\ timer[call.i].count = 65535
    /\ timer[call.i].reload = 65535

-----------------------------------------------------------------------------
(* SpecMem: on the constructed machine, with a cartridge of MemRomWords    *)
(* words, the guest writes bytes, halfwords and words to addresses of      *)
(* every region: bases, mirrors, odd addresses, the ends of WRAM and VRAM, *)
(* the ROM images and unmapped pages.  Reads are the operators ReadByte,   *)
(* ReadHWord and ReadWord applied to the state a write has left.           *)

MaxMemOps   == 2
MemRomWords == 2

MemRom == RomImage([k \in 1 .. MemRomWords |-> <<4352 + k, 8704 + k>>])

Address(page, io) == <<page * W8 + io \div W16, io % W16>>

\* <<page, offset>>: WRAM 0, 1, 0x3FFFC, 0x40000; IRAM 0, 0x8000; PAL 0,
\* 0x400; VRAM 0x10000, 0x10001, 0x18000, 0x18001, 0x1FFFC; OAM 0, 1, 0x400;
\* ROM 0 and 0x100 of page 8, 0 of pages 9, 0xA and 4 of page 0xC; BIOS 0;
\* the unmapped page 0x10
MemCells ==
    { <<2, 0>>, <<2, 1>>, <<2, 262140>>, <<2, 262144>>,
      <<3, 0>>, <<3, 32768>>,
      <<5, 0>>, <<5, 1024>>,
      <<6, 65536>>, <<6, 65537>>, <<6, 98304>>, <<6, 98305>>, <<6, 131068>>,
      <<7, 0>>, <<7, 1>>, <<7, 1024>>,
      <<8, 0>>, <<8, 256>>, <<9, 0>>, <<10, 0>>, <<12, 4>>,
      <<0, 0>>, <<16, 0>> }

MemAddrs == { Address(c[1], c[2]) : c \in MemCells }

MemByteInputs  == {171, 205}               \* 0xAB, 0xCD
MemHWordInputs == {48879}                  \* 0xBEEF
MemWordInputs  == { <<57005, 48879>> }     \* 0xDEADBEEF

InitMem ==
    /\ irq = InterruptInit
    /\ video = VideoInit
    /\ dma = DMAInit
    /\ wram = NoWram
    /\ timer = TimerInit
    /\ ram = RamInit
    /\ waitstate = WaitstateInit
    /\ halt = "RUN"
    /\ cpu = NoCpu
    /\ rom = MemRom
    /\ reset = NoReset
    /\ sched = NoSched
    /\ call = [op |-> "init", n |-> 0]

MemCall(op, a, value) ==
    [op |-> op, a |-> a, value |-> value, bus |-> Bus, n |-> call.n + 1]

MemWriteByte(a, value) ==
    /\ call.n < MaxMemOps
    /\ SetBus(WriteByte(Bus, a, value))
    /\ call' = MemCall("WriteByte", a, value)
    /\ UNCHANGED <<cpu, rom, reset, sched>>

MemWriteHWord(a, value) ==
    /\ call.n < MaxMemOps
    /\ SetBus(WriteHWord(Bus, a, value))
    /\ call' = MemCall("WriteHWord", a, value)
    /\ UNCHANGED <<cpu, rom, reset, sched>>

MemWriteWord(a, value) ==
    /\ call.n < MaxMemOps
    /\ SetBus(WriteWord(Bus, a, value))
    /\ call' = MemCall("WriteWord", a, value)
    /\ UNCHANGED <<cpu, rom, reset, sched>>

NextMem ==
    \/ \E a \in MemAddrs, value \in MemByteInputs : MemWriteByte(a, value)
    \/ \E a \in MemAddrs, value \in MemHWordInputs : MemWriteHWord(a, value)
    \/ \E a \in MemAddrs, value \in MemWordInputs : MemWriteWord(a, value)

SpecMem == InitMem /\ [][NextMem]_vars

RamPages == {2, 3, 5, 6, 7}

\* C15: for every word-aligned address a in WRAM, IRAM, palette RAM, VRAM
\* or OAM, mirrors included, and every value v: after write32(a, v),
\* read32(a) = v and read32(a) = read16(a) | (read16(a + 2) << 16).
C15_WordRoundTrip ==
    (/\ call.op = "WriteWord"
     /\ Page(call.a) \in RamPages
     /\ call.a[2] % 4 = 0) =>
        /\ ReadWord(Bus, rom, call.a) = call.value
        /\ ReadWord(Bus, rom, call.a) =
              << ReadHWord(Bus, rom, Add32(call.a, U32(2))),
                 ReadHWord(Bus, rom, call.a) >>
        /\ ReadHWord(Bus, rom, call.a) = call.value[2]
        /\ ReadHWord(Bus, rom, Add32(call.a, U32(2))) = call.value[1]

\* a word written through the mirror of the last word of VRAM is read back
C15_Witness ==
    /\ call.op = "WriteWord"
    /\ call.a = Address(6, 131068)
    /\ ReadWord(Bus, rom, call.a) = <<57005, 48879>>
    /\ Load(ram.vram, 98300) = 239

\* the cell of its region a byte address of page 2, 3 or 6 stands for
C16_Index(a) ==
    CASE Page(a) = 2 -> Offset24(a) % 262144
      [] Page(a) = 3 -> Offset24(a) % 32768
      [] Page(a) = 6 ->
            IF Offset24(a) % 131072 >= 98304
            THEN (Offset24(a) % 131072) - 32768
            ELSE Offset24(a) % 131072

C16_Region(b, a) ==
    CASE Page(a) = 2 -> b.wram
      [] Page(a) = 3 -> b.ram.iram
      [] Page(a) = 6 -> b.ram.vram

\* C16: for every 24-bit offset o, byte reads and writes at 0x02000000+o
\* act on WRAM[o mod 0x40000], at 0x03000000+o on IRAM[o mod 0x8000] and at
\* 0x06000000+o on VRAM at index (o mod 0x20000), lowered by 0x8000 when it
\* is >= 0x18000; so read8(0x06000000+v) = read8(0x06000000+v-0x8000) for v
\* in 0x18000..0x1FFFF, and a write through any mirror is observed through
\* every other mirror of the same cell.
C16_MirrorsShareCells ==
    /\ \A a \in MemAddrs :
          Page(a) \in {2, 3, 6} =>
              /\ ReadByte(Bus, rom, a) = Load(C16_Region(Bus, a), C16_Index(a))
              /\ Offset24(a) % 131072 >= 98304 /\ Page(a) = 6 =>
                    ReadByte(Bus, rom, a)
                        = ReadByte(Bus, rom, Sub32(a, U32(32768)))
    /\ (call.op = "WriteByte" /\ Page(call.a) \in {2, 3, 6}) =>
          /\ Load(C16_Region(Bus, call.a), C16_Index(call.a)) = call.value
          /\ \A a \in MemAddrs :
                (Page(a) = Page(call.a) /\ C16_Index(a) = C16_Index(call.a))
                    => ReadByte(Bus, rom, a) = call.value

\* a byte written at 0x06018000 is read at 0x06010000, while the byte an
\* earlier write left in WRAM cell 0 is still read at 0x02000000
C16_Witness ==
    /\ call.op = "WriteByte"
    /\ call.a = Address(6, 98304)
    /\ call.value = 171
    /\ ReadByte(Bus, rom, Address(6, 65536)) = 171
    /\ ReadByte(Bus, rom, Address(2, 0)) = 205
    /\ call.bus.wram = (0 :> 205)

\* the byte cells of the regions that differ between two memory objects,
\* as <<region, index>>
ChangedCells(b0, b1) ==
    LET diff(name, m0, m1) ==
            { <<name, o>> : o \in { x \in DOMAIN m0 \cup DOMAIN m1 :
                                       Load(m0, x) # Load(m1, x) } }
    IN  diff("wram", b0.wram, b1.wram)
            \cup diff("iram", b0.ram.iram, b1.ram.iram)
            \cup diff("pal", b0.ram.pal, b1.ram.pal)
            \cup diff("vram", b0.ram.vram, b1.ram.vram)
            \cup diff("oam", b0.ram.oam, b1.ram.oam)

\* the cell a byte address of a RAM page stands for
CellOf(a) ==
    CASE Page(a) = 2 -> <<"wram", Offset24(a) % 262144>>
      [] Page(a) = 3 -> <<"iram", Offset24(a) % 32768>>
      [] Page(a) = 5 -> <<"pal", Offset24(a) % 1024>>
      [] Page(a) = 6 -> <<"vram", C16_Index(a)>>
      [] Page(a) = 7 -> <<"oam", Offset24(a) % 1024>>

AlignedCells(a, unit) ==
    { CellOf(<<a[1], (a[2] \div unit) * unit + k>>) : k \in 0 .. unit - 1 }

\* C17: halfword and word bus accesses are force-aligned: for every address
\* a, read16(a) = read16(a AND NOT 1) and read32(a) = read32(a AND NOT 3),
\* and write16(a, v) / write32(a, v) modify exactly the bytes of the aligned
\* halfword / word that contains a and no byte outside it.
C17_AccessesForceAligned ==
    /\ \A a \in MemAddrs :
          /\ ReadHWord(Bus, rom, a) = ReadHWord(Bus, rom, AlignHWord(a))
          /\ ReadWord(Bus, rom, a) = ReadWord(Bus, rom, AlignWord(a))
    /\ (call.op = "WriteHWord" /\ Page(call.a) \in RamPages) =>
          ChangedCells(call.bus, Bus) \subseteq AlignedCells(call.a, 2)
    /\ (call.op = "WriteWord" /\ Page(call.a) \in RamPages) =>
          ChangedCells(call.bus, Bus) \subseteq AlignedCells(call.a, 4)

\* the accesses at aligned addresses stay inside their halfword or word
C17_AlignedAccessesStayInside ==
    /\ (call.op = "WriteHWord" /\ Page(call.a) \in RamPages
            /\ call.a[2] % 2 = 0) =>
          ChangedCells(call.bus, Bus) \subseteq AlignedCells(call.a, 2)
    /\ (call.op = "WriteWord" /\ Page(call.a) \in RamPages
            /\ call.a[2] % 4 = 0) =>
          ChangedCells(call.bus, Bus) \subseteq AlignedCells(call.a, 4)

\* the read half of C17 alone
C17_ReadsForceAligned ==
    \A a \in MemAddrs :
        /\ ReadHWord(Bus, rom, a) = ReadHWord(Bus, rom, AlignHWord(a))
        /\ ReadWord(Bus, rom, a) = ReadWord(Bus, rom, AlignWord(a))

\* the write half of C17 alone
C17_WritesForceAligned ==
    /\ (call.op = "WriteHWord" /\ Page(call.a) \in RamPages) =>
          ChangedCells(call.bus, Bus) \subseteq AlignedCells(call.a, 2)
    /\ (call.op = "WriteWord" /\ Page(call.a) \in RamPages) =>
          ChangedCells(call.bus, Bus) \subseteq AlignedCells(call.a, 4)

\* the two cells of the aligned halfword that contains a hold value
C18_Widened(b, a, value) ==
    \A c \in AlignedCells(a, 2) :
        LET m == CASE c[1] = "pal" -> b.ram.pal
                   [] c[1] = "vram" -> b.ram.vram
                   [] c[1] = "oam" -> b.ram.oam
        IN  Load(m, c[2]) = value

\* C18: an 8-bit write of value b to a VRAM or palette address a stores b
\* in both bytes of the aligned halfword containing a; an 8-bit write to
\* any OAM address or any ROM address is ignored, leaving OAM, ROM and all
\* other memory unchanged.
C18_ByteWritesWidenedOrIgnored ==
    call.op = "WriteByte" =>
        /\ Page(call.a) \in {5, 6} =>
              /\ C18_Widened(Bus, call.a, call.value)
              /\ ChangedCells(call.bus, Bus) \subseteq AlignedCells(call.a, 2)
        /\ Page(call.a) \in {7, 8, 9, 10, 12} => Bus = call.bus

\* what WriteByte does for the pages of C18: the write to OAM is widened
\* like the writes to VRAM and palette RAM, the write to ROM is ignored
C18_OAMWidenedToo ==
    call.op = "WriteByte" =>
        /\ Page(call.a) \in {5, 6, 7} =>
              /\ C18_Widened(Bus, call.a, call.value)
              /\ ChangedCells(call.bus, Bus) \subseteq AlignedCells(call.a, 2)
        /\ Page(call.a) \in {8, 9, 10, 12} => Bus = call.bus

\* offsets below the size of the cartridge, and two at and beyond it
C19_Offsets == 0 .. Len(rom) + 1

C19_RomByte(o) == IF o < Len(rom) THEN rom[o + 1] ELSE 0

\* no write to a ROM or BIOS address changes the state
C19_WritesDropped ==
    (call.op \in {"WriteByte", "WriteHWord", "WriteWord"}
        /\ Page(call.a) \in {0, 1} \cup (8 .. 13)) => Bus = call.bus

\* C19: for every ROM offset o below the ROM size a byte read at each of
\* the three waitstate images 0x08000000+o, 0x0A000000+o and 0x0C000000+o
\* returns ROM[o]; a read in a ROM region at an offset at or beyond the ROM
\* size returns 0; a read of an unmapped address returns 0; writes of any
\* width to ROM or BIOS addresses change no state.
C19_RomImagesAndDroppedWrites ==
    /\ \A o \in C19_Offsets, page \in {8, 10, 12} :
          ReadByte(Bus, rom, Address(page, o)) = C19_RomByte(o)
    /\ ReadByte(Bus, rom, Address(16, 0)) = 0
    /\ C19_WritesDropped

\* the image at 0x08000000 alone is readable, the regions of the other two
\* images read as 0
C19_FirstImageOnly ==
    /\ \A o \in C19_Offsets :
          /\ ReadByte(Bus, rom, Address(8, o)) = C19_RomByte(o)
          /\ ReadByte(Bus, rom, Address(10, o)) = 0
          /\ ReadByte(Bus, rom, Address(12, o)) = 0
    /\ ReadByte(Bus, rom, Address(16, 0)) = 0
    /\ C19_WritesDropped

-----------------------------------------------------------------------------
(* SpecWait: the guest writes WAITCNT.  GBAMemory keeps the fields in      *)
(* m_Waitstate and computes the cost of an access from them in             *)
(* SequentialAccess and NonSequentialAccess; CPU keeps them in             *)
(* mmio.waitcnt and rebuilds the tables cycles16 and cycles32 in           *)
(* UpdateCycleLUT.  The variable reset holds mmio.waitcnt and the two      *)
(* tables as CPU::Reset leaves them.  The tables s_ws_nseq and s_ws_seq*   *)
(* (cpu.hpp) and the decoding of the WAITCNT halfword into mmio.waitcnt    *)
(* are taken from the register map.                                        *)

MaxWaitOps == 2

s_ws_nseq == <<4, 3, 2, 8>>
s_ws_seq  == << <<2, 1>>, <<4, 1>>, <<8, 1>> >>    \* s_ws_seq0, 1, 2

\* mmio.waitcnt after a write of the halfword value: ws_n[k], ws_s[k] are
\* the fields of image k - 1
WaitcntDecode(value) ==
    [ sram |-> value % 4,
      ws_n |-> << (value \div 4) % 4, (value \div 32) % 4,
                  (value \div 256) % 4 >>,
      ws_s |-> << Bit(value, 4), Bit(value, 7), Bit(value, 10) >> ]

\* cycles16 and cycles32 as the loops of CPU::Reset fill them, for the two
\* access kinds and the pages 0 .. 15
ResetCycleLUT ==
    [ cycles16 |-> [acc \in {"NSEQ", "SEQ"} |->
                       [page \in 0 .. 15 |-> IF page = 2 THEN 3 ELSE 1]],
      cycles32 |-> [acc \in {"NSEQ", "SEQ"} |->
                       [page \in 0 .. 15 |->
                           CASE page = 2 -> 6
                             [] page \in {5, 6} -> 2
                             [] OTHER -> 1]] ]

\* the image, 1 .. 3, a ROM page belongs to
ImageOf(page) == (page - 8) \div 2 + 1

UpdateCycleLUT(lut, waitcnt) ==
    LET sram_cycles == 1 + s_ws_nseq[waitcnt.sram + 1]
        n16(page) == 1 + s_ws_nseq[waitcnt.ws_n[ImageOf(page)] + 1]
        s16(page) == 1 + s_ws_seq[ImageOf(page)][waitcnt.ws_s[ImageOf(page)] + 1]
    IN  [ cycles16 |->
            [acc \in {"NSEQ", "SEQ"} |->
                [page \in 0 .. 15 |->
                    CASE page = 14 -> sram_cycles
                      [] page \in 8 .. 13 ->
                            IF acc = "NSEQ" THEN n16(page) ELSE s16(page)
                      [] OTHER -> lut.cycles16[acc][page]]],
          cycles32 |->
            [acc \in {"NSEQ", "SEQ"} |->
                [page \in 0 .. 15 |->
                    CASE page = 14 -> sram_cycles
                      [] page \in 8 .. 13 ->
                            IF acc = "NSEQ" THEN n16(page) + s16(page)
                            ELSE s16(page) * 2
                      [] OTHER -> lut.cycles32[acc][page]]] ]

\* WAITCNT values: every setting of the six ROM fields, bits 2 .. 10
WaitcntInputs == { 4 * f : f \in 0 .. 511 }

InitWait ==
    /\ irq = InterruptInit
    /\ video = VideoInit
    /\ dma = DMAInit
    /\ wram = NoWram
    /\ timer = TimerInit
    /\ ram = RamInit
    /\ waitstate = WaitstateInit
    /\ halt = "RUN"
    /\ cpu = NoCpu
    /\ rom = NoRom
    /\ reset = [pos |-> "done", waitcnt |-> WaitcntDecode(0),
                lut |-> UpdateCycleLUT(ResetCycleLUT, WaitcntDecode(0))]
    /\ sched = NoSched
    /\ call = [op |-> "init", n |-> 0]

GuestWriteWAITCNT(value) ==
    /\ call.n < MaxWaitOps
    /\ SetBus(WriteHWord(Bus, Add32(IOBase, U32(WAITCNT)), value))
    /\ reset' = [reset EXCEPT
                    !.waitcnt = WaitcntDecode(value),
                    !.lut = UpdateCycleLUT(@, WaitcntDecode(value))]
    /\ call' = [op |-> "WriteWAITCNT", value |-> value, n |-> call.n + 1]
    /\ UNCHANGED <<cpu, rom, sched>>

NextWait == \E value \in WaitcntInputs : GuestWriteWAITCNT(value)

SpecWait == InitWait /\ [][NextWait]_vars

\* the four costs the register map gives image k under WAITCNT value:
\* non-sequential and sequential, 16 and 32 bit
C20_Cost(value, k, acc, word) ==
    LET N == <<4, 3, 2, 8>>
        S == << <<2, 1>>, <<4, 1>>, <<8, 1>> >>
        n == 1 + N[((value \div (4 * 8^(k - 1))) % 4) + 1]
        q == 1 + S[k][Bit(value, 3 * k + 1) + 1]
    IN  CASE acc = "NSEQ" /\ ~word -> n
          [] acc = "SEQ" /\ ~word -> q
          [] acc = "NSEQ" /\ word -> n + q
          [] acc = "SEQ" /\ word -> 2 * q

\* the table built by UpdateCycleLUT holds the costs of the register map
C20_LUTFollowsWAITCNT ==
    call.op = "WriteWAITCNT" =>
        \A page \in 8 .. 13, acc \in {"NSEQ", "SEQ"} :
            /\ reset.lut.cycles16[acc][page]
                  = C20_Cost(call.value, ImageOf(page), acc, FALSE)
            /\ reset.lut.cycles32[acc][page]
                  = C20_Cost(call.value, ImageOf(page), acc, TRUE)

\* the cost GBAMemory computes for an access to address a
C20_MemoryCost(a, acc, word) ==
    IF acc = "NSEQ" THEN NonSequentialAccess(Bus, a, word)
    ELSE SequentialAccess(Bus, a, word)

\* C20: after any write to WAITCNT, for each ROM image k (WS0: regions
\* 8/9, WS1: A/B, WS2: C/D) the cost of an access at every address of the
\* image is 1 + N[ws_k_n] for a non-sequential 16-bit access,
\* 1 + S_k[ws_k_s] for a sequential 16-bit access, their sum for a
\* non-sequential 32-bit access and 2 * (1 + S_k[ws_k_s]) for a sequential
\* 32-bit access, both in the table built by UpdateCycleLUT and in
\* GBAMemory::NonSequentialAccess / SequentialAccess.
C20_AccessCostsFollowWAITCNT ==
    call.op = "WriteWAITCNT" =>
        \A page \in 8 .. 13, acc \in {"NSEQ", "SEQ"}, word \in BOOLEAN :
            /\ (IF word THEN reset.lut.cycles32 ELSE reset.lut.cycles16)
                    [acc][page]
                  = C20_Cost(call.value, ImageOf(page), acc, word)
            /\ \A io \in {0, 4, 16777212} :
                  C20_MemoryCost(Address(page, io), acc, word)
                      = C20_Cost(call.value, ImageOf(page), acc, word)

-----------------------------------------------------------------------------
(* ARM7::SWI: the high-level BIOS calls.  r0, r1 and r2 are the members of *)
(* that name.  The unsigned division of two u32 values is the long         *)
(* division a 32-bit divider performs, one quotient bit per round.         *)

Lt32(a, b) == a[1] < b[1] \/ (a[1] = b[1] /\ a[2] < b[2])

\* (a << 1) | bit, truncated to 32 bits
ShiftIn32(a, bit) ==
    <<(2 * a[1] + (a[2] \div 32768)) % W16, (2 * a[2] + bit) % W16>>

SetBit32(a, i) ==
    IF i < 16 THEN <<a[1], a[2] + 2^i>> ELSE <<a[1] + 2^(i - 16), a[2]>>

\* the rounds i, i - 1, .. 0 of the division of n by d, with quotient q and
\* remainder r so far
RECURSIVE DivRounds(_, _, _, _, _)
DivRounds(n, d, i, q, r) ==
    IF i < 0 THEN [div |-> q, mod |-> r]
    ELSE LET r1 == ShiftIn32(r, Bit32(n, i))
         IN  IF r[1] >= 32768 \/ ~Lt32(r1, d)
             THEN DivRounds(n, d, i - 1, SetBit32(q, i), Sub32(r1, d))
             ELSE DivRounds(n, d, i - 1, q, r1)

\* r0 / r1 and r0 % r1 on u32, r1 # 0
UDivMod32(n, d) == DivRounds(n, d, 31, U32(0), U32(0))

\* the quotient is the signed one
SWIDiv_Signed(c) ==
    LET neg(x) == x[1] >= 32768
        abs(x) == IF neg(x) THEN Sub32(U32(0), x) ELSE x
        qr     == UDivMod32(abs(c.regs["r0"]), abs(c.regs["r1"]))
        sq     == IF neg(c.regs["r0"]) # neg(c.regs["r1"])
                  THEN Sub32(U32(0), qr.div) ELSE qr.div
        sr     == IF neg(c.regs["r0"]) THEN Sub32(U32(0), qr.mod) ELSE qr.mod
    IN  [c EXCEPT !.regs["r0"] = sq, !.regs["r1"] = sr]

\* case 0x06
SWIDiv(c) ==
    LET qr == UDivMod32(c.regs["r0"], c.regs["r1"])
    IN  [c EXCEPT !.regs["r0"] = qr.div, !.regs["r1"] = qr.mod]

\* ARM7::ReadWord and ARM7::WriteWord (arm7.hpp): the bus access at the
\* word-aligned address
ARM7ReadWord(b, m_Rom, offset) == ReadWord(b, m_Rom, AlignWord(offset))

ARM7WriteWord(b, offset, value) == WriteWord(b, AlignWord(offset), value)

\* case 0x0C: the rounds i .. length - 1 of the loop
RECURSIVE CpuFastSetLoop(_, _, _, _, _, _)
CpuFastSetLoop(b, m_Rom, source, dest, left, fixed) ==
    IF left = 0 THEN b
    ELSE CpuFastSetLoop(
             ARM7WriteWord(b, dest, ARM7ReadWord(b, m_Rom, source)),
             m_Rom,
             IF fixed THEN source ELSE Add32(source, U32(4)),
             Add32(dest, U32(4)), left - 1, fixed)

\* r2 & 0xFFFFF
SWILength(r2) == (r2[1] % 16) * W16 + r2[2]

\* the fixed flag is not looked at
SWICpuFastSet_NoFixed(c, b, m_Rom) ==
    CpuFastSetLoop(b, m_Rom, c.regs["r0"], c.regs["r1"],
                   SWILength(c.regs["r2"]), FALSE)

SWICpuFastSet(c, b, m_Rom) ==
    CpuFastSetLoop(b, m_Rom, c.regs["r0"], c.regs["r1"],
                   SWILength(c.regs["r2"]), Bit32(c.regs["r2"], 24) = 1)

\* cases 0x11 and 0x12.  LZ77Stream is the `while (amount > 0)` loop,
\* LZ77Blocks the `for (i = 7; i >= 0; i--)` loop from block i on, LZ77Copy
\* the `for (j = 0; j < n; j++)` loop with `left` rounds to go.  Each
\* returns the memory object the call leaves.
RECURSIVE LZ77Stream(_, _, _, _, _)
RECURSIVE LZ77Blocks(_, _, _, _, _, _, _)
RECURSIVE LZ77Copy(_, _, _, _, _, _, _, _, _)

LZ77Stream(b, m_Rom, source, dest, amount) ==
    IF amount <= 0 THEN b
    ELSE LZ77Blocks(b, m_Rom, Add32(source, U32(1)), dest, amount,
                    ReadByte(b, m_Rom, source), 7)

LZ77Blocks(b, m_Rom, source, dest, amount, encoder, i) ==
    IF i < 0 THEN LZ77Stream(b, m_Rom, source, dest, amount)
    ELSE IF Bit(encoder, i) = 1
    THEN LET value == ReadHWord(b, m_Rom, source)
         IN  LZ77Copy(b, m_Rom, Add32(source, U32(2)), dest, amount, encoder,
                      i, (value \div W8) + (value % 16) * W8,
                      ((value \div 16) % 16) + 3)
    ELSE IF amount = 1
    THEN WriteHWord(b, dest, ReadByte(b, m_Rom, source))
    ELSE LZ77Blocks(WriteHWord(b, dest, ReadByte(b, m_Rom, source)), m_Rom,
                    Add32(source, U32(1)), Add32(dest, U32(1)), amount - 1,
                    encoder, i - 1)

LZ77Copy(b, m_Rom, source, dest, amount, encoder, i, disp, left) ==
    IF left = 0
    THEN LZ77Blocks(b, m_Rom, source, dest, amount, encoder, i - 1)
    ELSE IF amount = 1
    THEN WriteHWord(b, dest,
                    ReadByte(b, m_Rom, Sub32(dest, U32(disp + 1))))
    ELSE LZ77Copy(WriteHWord(b, dest,
                             ReadByte(b, m_Rom, Sub32(dest, U32(disp + 1)))),
                  m_Rom, source, Add32(dest, U32(1)), amount - 1, encoder, i,
                  disp, left - 1)

\* ReadWord(r0) >> 8
LZ77Amount(b, m_Rom, r0) ==
    LET header == ReadWord(b, m_Rom, r0)
    IN  header[1] * W8 + (header[2] \div W8)

SWILZ77(c, b, m_Rom) ==
    LZ77Stream(b, m_Rom, Add32(c.regs["r0"], U32(4)), c.regs["r1"],
               LZ77Amount(b, m_Rom, c.regs["r0"]))

\* ARM7::SWI(number): the registers and the memory object afterwards
SWI(c, b, m_Rom, number) ==
    CASE number = 6  -> [cpu |-> SWIDiv(c), bus |-> b]
      [] number = 12 -> [cpu |-> c, bus |-> SWICpuFastSet(c, b, m_Rom)]
      [] number \in {17, 18} -> [cpu |-> c, bus |-> SWILZ77(c, b, m_Rom)]
      [] OTHER -> [cpu |-> c, bus |-> b]

-----------------------------------------------------------------------------
(* The BIOS calls of a guest: the guest loads r0, r1 and r2 and executes   *)
(* a SWI instruction, which ARM7::SWI serves.                              *)

MaxSwiCalls == 2

\* the bytes `bytes` at the offsets base, base + 1, ..
Place(base, bytes) ==
    [o \in base .. base + Len(bytes) - 1 |-> bytes[o - base + 1]]

\* header 0x00000410, one encoder byte 0, four literals
LZ77Literals == <<16, 4, 0, 0,  0,  161, 162, 163, 164>>

\* header 0x00000C00, one encoder byte 0, twelve literals
LZ77Twelve ==
    <<0, 12, 0, 0,  0,  193, 194, 195, 196, 197, 198, 199, 200, 201, 202,
      203, 204>>

\* header 0x00000610; encoder 0x20: two literals, a copy of three bytes
\* from two bytes back, a literal
LZ77Repeat == <<16, 6, 0, 0,  32,  177, 178,  0, 1,  179>>

\* WRAM: 32 bytes of data at 0, the three streams at 0x200, 0x220 and
\* 0x240, and 0xEE in the 32 bytes at 0x100 and at 0x300
SwiWram ==
    [o \in 0 .. 31 |-> ((o * 7) % 255) + 1]
        @@ [o \in 256 .. 287 |-> 238]
        @@ Place(512, LZ77Literals) @@ Place(544, LZ77Twelve)
        @@ Place(576, LZ77Repeat)
        @@ [o \in 768 .. 799 |-> 238]

\* the numerators and denominators of a division
DivInputs ==
    { U32(0), U32(1), U32(7), <<1, 0>>, <<32767, 65535>>, <<32768, 1>>,
      <<65535, 65534>>, <<65535, 65535>> }

\* <<r0, r1, r2>> of a CpuFastSet: the source 0x02000008, the destination
\* apart from it, one word above it, one word below it or on it, one to
\* three words, copied or filled
FastSetInputs ==
    { <<<<512, 8>>, <<512, d>>, <<256 * f, n>>>> :
          d \in {256, 12, 4, 8}, n \in 1 .. 3, f \in {0, 1} }

\* <<r0, r1, r2>> of an LZ77 call: each stream, to 0x02000300
LZ77Inputs ==
    { <<<<512, s>>, <<512, 768>>, U32(0)>> : s \in {512, 544, 576} }

InitSwi ==
    /\ irq = InterruptInit
    /\ video = VideoInit
    /\ dma = DMAInit
    /\ wram = SwiWram
    /\ timer = TimerInit
    /\ ram = RamInit
    /\ waitstate = WaitstateInit
    /\ halt = "RUN"
    /\ cpu = ARM7Init(ARM7Mode.System)
    /\ rom = NoRom
    /\ reset = NoReset
    /\ sched = NoSched
    /\ call = [op |-> "init", n |-> 0]

\* the registers with the arguments of the call loaded
WithArgs(c, args) ==
    [c EXCEPT !.regs["r0"] = args[1], !.regs["r1"] = args[2],
              !.regs["r2"] = args[3]]

SwiCall(number, args) ==
    /\ call.n < MaxSwiCalls
    /\ SetBus(SWI(WithArgs(cpu, args), Bus, rom, number).bus)
    /\ cpu' = SWI(WithArgs(cpu, args), Bus, rom, number).cpu
    /\ call' = [op |-> "SWI", number |-> number,
                cpu |-> WithArgs(cpu, args), bus |-> Bus, n |-> call.n + 1]
    /\ UNCHANGED <<rom, reset, sched>>

\* a division by zero has no defined result: the call is left out
SwiDiv ==
    \E n \in DivInputs, d \in DivInputs \ {U32(0)}, r2 \in {U32(5)} :
        SwiCall(6, <<n, d, r2>>)

SwiCpuFastSet == \E args \in FastSetInputs : SwiCall(12, args)

SwiLZ77 == \E number \in {17, 18}, args \in LZ77Inputs : SwiCall(number, args)

NextSwi == SwiDiv \/ SwiCpuFastSet \/ SwiLZ77

SpecSwi == InitSwi /\ [][NextSwi]_vars

\* the product of two 16-bit values, as a u32
Mul16(a, b) ==
    LET p0   == (a % W8) * b
        p1   == (a \div W8) * b
        low  == p0 + (p1 % W8) * W8
    IN  <<(p1 \div W8) + (low \div W16), low % W16>>

\* q * d + r = n, in the integers
IsDivision(n, d, q, r) ==
    LET ll == Mul16(q[2], d[2])
        lh == Mul16(q[2], d[1])
        hl == Mul16(q[1], d[2])
        hh == Mul16(q[1], d[1])
        s0 == ll[2] + r[2]
        s1 == ll[1] + lh[2] + hl[2] + r[1] + (s0 \div W16)
        s2 == lh[1] + hl[1] + hh[2] + (s1 \div W16)
    IN  /\ s0 % W16 = n[2]
        /\ s1 % W16 = n[1]
        /\ s2 = 0
        /\ hh[1] = 0

\* C21: SWI 0x06 with r1 # 0 leaves the unsigned quotient of r0 by r1 in
\* r0 and the unsigned remainder in r1, and changes no other register and no
\* memory cell.
C21_DivQuotientAndRemainder ==
    (call.op = "SWI" /\ call.number = 6) =>
        /\ IsDivision(call.cpu.regs["r0"], call.cpu.regs["r1"],
                      cpu.regs["r0"], cpu.regs["r1"])
        /\ Lt32(cpu.regs["r1"], call.cpu.regs["r1"])
        /\ cpu = [call.cpu EXCEPT !.regs["r0"] = cpu.regs["r0"],
                                  !.regs["r1"] = cpu.regs["r1"]]
        /\ Bus = call.bus

\* a division of a numerator above 0x7FFFFFFF with a quotient and a
\* remainder that are not 0
C21_Witness ==
    /\ call.op = "SWI" /\ call.number = 6
    /\ call.cpu.regs["r0"][1] >= 32768
    /\ cpu.regs["r0"] # U32(0)
    /\ cpu.regs["r1"] # U32(0)
    /\ call.cpu.regs["r2"] # U32(0)

\* word k of the block at `a` in the memory b
BlockWord(b, a, k) == ReadWord(b, rom, Add32(a, U32(4 * k)))

\* the destination block is the source block as it was before the call,
\* or its first word throughout
C22_Copied ==
    \A k \in 0 .. SWILength(call.cpu.regs["r2"]) - 1 :
        BlockWord(Bus, call.cpu.regs["r1"], k)
            = BlockWord(call.bus, call.cpu.regs["r0"],
                        IF Bit32(call.cpu.regs["r2"], 24) = 1 THEN 0 ELSE k)

\* the destination starts inside the source block, above its first word
C22_OverlapsAbove ==
    LET source == Offset24(call.cpu.regs["r0"])
        dest   == Offset24(call.cpu.regs["r1"])
    IN  /\ Page(call.cpu.regs["r0"]) = Page(call.cpu.regs["r1"])
        /\ source < dest
        /\ dest < source + 4 * SWILength(call.cpu.regs["r2"])

LZ77Decoded(stream) ==
    CASE stream = 512 -> <<161, 162, 163, 164>>
      [] stream = 544 -> <<193, 194, 195, 196, 197, 198, 199, 200, 201, 202,
                           203, 204>>
      [] stream = 576 -> <<177, 178, 177, 178, 177, 179>>

\* C23: SWI 0x11 and 0x12 write the L decoded bytes to dest .. dest + L - 1
\* and change no byte outside; a stream of the header 0x00000C00, one
\* encoder byte 0 and twelve literals decodes to the twelve literals.
C23_LZ77WritesDecodedOnly ==
    (call.op = "SWI" /\ call.number \in {17, 18}) =>
        LET decoded == LZ77Decoded(call.cpu.regs["r0"][2])
            dest    == call.cpu.regs["r1"][2]
        IN  /\ Len(decoded) = LZ77Amount(call.bus, rom, call.cpu.regs["r0"])
            /\ \A k \in 1 .. Len(decoded) :
                   Load(wram, dest + k - 1) = decoded[k]
            /\ \A o \in DOMAIN wram \ (dest .. dest + Len(decoded) - 1) :
                   Load(wram, o) = Load(call.bus.wram, o)
            /\ cpu = call.cpu
            /\ Bus = [call.bus EXCEPT !.wram = wram]

\* the streams of at most eight blocks decode to their bytes, and of the
\* bytes outside only the one after the last changes, to 0
C23_ByteAfterCleared ==
    (call.op = "SWI" /\ call.number \in {17, 18}
        /\ call.cpu.regs["r0"][2] # 544) =>
        LET decoded == LZ77Decoded(call.cpu.regs["r0"][2])
            dest    == call.cpu.regs["r1"][2]
        IN  /\ \A k \in 1 .. Len(decoded) :
                   Load(wram, dest + k - 1) = decoded[k]
            /\ \A o \in DOMAIN wram \ (dest .. dest + Len(decoded)) :
                   Load(wram, o) = Load(call.bus.wram, o)
            /\ Load(wram, dest + Len(decoded)) = 0

-----------------------------------------------------------------------------
(* GBAVideo::RenderBackgroundMode1: one line of a rotate/scale background. *)
(* A float that holds a multiple of 1/256 is the integer number of 1/256   *)
(* it holds; the sums and products of the renderer are exact for the       *)
(* values used here.                                                       *)

\* struct Background, as constructed, with the fields the renderer reads
BackgroundInit ==
    [ enable |-> FALSE, wraparound |-> FALSE, size |-> 0, tile_base |-> 0,
      map_base |-> 0, x_ref_int |-> 0, y_ref_int |-> 0,
      pa |-> 0, pb |-> 0, pc |-> 0, pd |-> 0 ]

\* the value of DecodeGBAFloat16(number), in 1/256
DecodeGBAFloat16(number) ==
    IF number >= 32768
    THEN ((number \div W8) - 256) * 256 - (number % W8)
    ELSE number

\* the conversion of a float of f / 256 to int, and the / and % of int
FloatToInt(f) == IF f >= 0 THEN f \div 256 ELSE -((-f) \div 256)

IntDiv(a, n) == IF a >= 0 THEN a \div n ELSE -((-a) \div n)

IntRem(a, n) == IF a >= 0 THEN a % n ELSE -((-a) % n)

DecodeRGB5(color) ==
    <<65280 + (color % 32) * 8,
      ((color \div 32) % 32) * 8 * W8 + ((color \div 1024) % 32) * 8>>

\* DecodeTilePixel8BPP(block_base, number, line, column, false)
DecodeTilePixel8BPP(r, block_base, number, line, column) ==
    LET value == Load(r.vram, block_base + number * 64 + line * 8 + column)
        color == DecodeRGB5(Load(r.pal, value * 2 + 1) * W8
                              + Load(r.pal, value * 2))
    IN  IF value = 0 THEN <<color[1] % W8, color[2]>> ELSE color

\* the map is 32 tiles wide whatever the size
Mode1Blocks_32(bg) == 32

\* int blocks = ((m_BG[id].size) + 1) << 4
Mode1Blocks(bg) == (bg.size + 1) * 16

\* the point <<x, y>> of the map that pixel i of line m_VCount shows, or
\* << >> when the pixel is left transparent
Mode1Point(bg, m_VCount, i) ==
    LET size == Mode1Blocks(bg) * 8
        x0 == FloatToInt(bg.x_ref_int * 256 + DecodeGBAFloat16(bg.pa) * i
                           + DecodeGBAFloat16(bg.pb) * m_VCount)
        y0 == FloatToInt(bg.y_ref_int * 256 + DecodeGBAFloat16(bg.pc) * i
                           + DecodeGBAFloat16(bg.pd) * m_VCount)
        over == x0 >= size \/ y0 >= size
        x1 == IF over THEN IntRem(x0, size) ELSE x0
        y1 == IF over THEN IntRem(y0, size) ELSE y0
    IN  IF (over \/ x1 < 0 \/ y1 < 0) /\ ~bg.wraparound THEN << >>
        ELSE << IF x1 < 0 THEN IntRem(size + x1, size) ELSE x1,
                IF y1 < 0 THEN IntRem(size + y1, size) ELSE y1 >>

\* <<tile_row, tile_column>> of the map entry read for the point p
Mode1Entry(p) ==
    << IntDiv(p[2] - IntRem(p[2], 8), 8), IntDiv(p[1] - IntRem(p[1], 8), 8) >>

\* m_BgBuffer[id][i] after the round i of the loop
Mode1Pixel(bg, r, m_VCount, i) ==
    LET p == Mode1Point(bg, m_VCount, i)
    IN  IF p = << >> THEN U32(0)
        ELSE DecodeTilePixel8BPP(
                 r, bg.tile_base,
                 Load(r.vram, bg.map_base
                                + Mode1Entry(p)[1] * Mode1Blocks(bg)
                                + Mode1Entry(p)[2]),
                 IntRem(p[2], 8), IntRem(p[1], 8))

RenderBackgroundMode1(v, r, id) ==
    [v EXCEPT !.m_BgBuffer[id] =
        [i \in 0 .. 239 |-> Mode1Pixel(v.m_BG[id], r, v.m_VCount, i)]]

MaxRenders == 2

\* a map of 64 x 64 entries at 0x800, the entry k naming the tile k % 256;
\* the 256 tiles at 0x4000, every pixel of the tile n of the colour
\* n % 255 + 1; the palette entry c is the colour c
BGVram ==
    [o \in 2048 .. 6143 |-> (o - 2048) % 256]
        @@ [o \in 16384 .. 32767 |-> (((o - 16384) \div 64) % 255) + 1]

BGPal == [o \in 0 .. 511 |-> IF o % 2 = 0 THEN o \div 2 ELSE 0]

\* the settings of BG2: a matrix entry below 0 comes with a map that is
\* wider than the line, so that no map entry is read below the map
BGInputs ==
    { [BackgroundInit EXCEPT !.enable = TRUE, !.wraparound = w, !.size = sz,
                             !.tile_base = 16384, !.map_base = 2048,
                             !.x_ref_int = x, !.pa = pa, !.pc = pc,
                             !.pd = 256] :
          w \in BOOLEAN, sz \in 0 .. 3, x \in {0, 100},
          pa \in {256, 128, 65280}, pc \in {0, 64} }

BGLines == {0, 9, 130}

InitBG ==
    /\ irq = InterruptInit
    /\ \E bg \in BGInputs, line \in BGLines :
          /\ bg.pa < 32768 \/ bg.size >= 1
          /\ video = [m_BG |-> [n \in 0 .. 3 |->
                                   IF n = 2 THEN bg ELSE BackgroundInit],
                      m_BgBuffer |-> [n \in 0 .. 3 |->
                                         [i \in 0 .. 239 |-> U32(0)]]]
                       @@ [VideoInit EXCEPT !.m_VCount = line]
    /\ dma = DMAInit
    /\ wram = NoWram
    /\ timer = TimerInit
    /\ ram = [RamInit EXCEPT !.vram = BGVram, !.pal = BGPal]
    /\ waitstate = WaitstateInit
    /\ halt = "RUN"
    /\ cpu = NoCpu
    /\ rom = NoRom
    /\ reset = NoReset
    /\ sched = NoSched
    /\ call = [op |-> "init", n |-> 0]

\* GBAVideo::Render, video mode 1: the line of BG2
RenderMode1 ==
    /\ call.n < MaxRenders
    /\ video.m_BG[2].enable
    /\ video' = RenderBackgroundMode1(video, ram, 2)
    /\ call' = [op |-> "RenderBackgroundMode1", id |-> 2,
                entry |-> [i \in 0 .. 239 |->
                    IF Mode1Point(video.m_BG[2], video.m_VCount, i) = << >>
                    THEN << >>
                    ELSE Mode1Entry(Mode1Point(video.m_BG[2],
                                               video.m_VCount, i))],
                n |-> call.n + 1]
    /\ UNCHANGED <<irq, dma, wram, timer, ram, waitstate, halt, cpu, rom,
                   reset, sched>>

\* the PPU moves on to another line
BGNextLine ==
    /\ call.n < MaxRenders
    /\ call.op # "init"
    /\ \E line \in BGLines \ {video.m_VCount} :
          video' = [video EXCEPT !.m_VCount = line]
    /\ call' = [op |-> "NextLine", n |-> call.n]
    /\ UNCHANGED <<irq, dma, wram, timer, ram, waitstate, halt, cpu, rom,
                   reset, sched>>

NextBG == RenderMode1 \/ BGNextLine

SpecBG == InitBG /\ [][NextBG]_vars

\* BG2 of size 0 with wraparound, the reference point 0, 0 and the matrix
\* 1, 0, 0, 1, on line 0
C24_Case ==
    /\ call.op = "RenderBackgroundMode1"
    /\ video.m_VCount = 0
    /\ video.m_BG[2].size = 0 /\ video.m_BG[2].wraparound
    /\ video.m_BG[2].x_ref_int = 0 /\ video.m_BG[2].y_ref_int = 0
    /\ video.m_BG[2].pa = 256 /\ video.m_BG[2].pd = 256
    /\ video.m_BG[2].pb = 0 /\ video.m_BG[2].pc = 0

\* C24: in that case the pixel i of 0 .. 239 shows the map entry of row 0
\* and column i / 8: the line draws the tiles (0,0) to (29,0).
C24_ColumnsZeroTo29 ==
    C24_Case => \A i \in 0 .. 239 : call.entry[i] = <<0, i \div 8>>

\* C24, amended: the pixel i shows the map entry of row 0 and column
\* (i / 8) % 16, of the colour of that entry's tile: the line draws the
\* tiles (0,0) to (15,0) and then (0,0) to (13,0).
C24_ColumnsWrapAt16 ==
    C24_Case =>
        \A i \in 0 .. 239 :
            /\ call.entry[i] = <<0, (i \div 8) % 16>>
            /\ video.m_BgBuffer[2][i] = DecodeRGB5(((i \div 8) % 16) + 1)

C24_Witness ==
    /\ C24_Case
    /\ video.m_BgBuffer[2][239] = DecodeRGB5(14)
    /\ video.m_BgBuffer[2][127] = DecodeRGB5(16)

-----------------------------------------------------------------------------
(* SpecRunFor: the inner loop of CPU::RunFor from every setting of IE, IF, *)
(* IME, CPSR.I and HALTCNT, with channel 0 of the DMA idle or started and  *)
(* timer 0 idle or one tick before it overflows, beside a PPU that is one  *)
(* tick before the vertical blank.                                         *)

\* IE: nothing, VBlank, timer 0
RunForIe == {0, 1, 8}

\* DISPSTAT: nothing, the VBlank interrupt
RunForDispstat == {0, 8}

\* CPSR: user mode, with I clear and set
RunForCpsr == {16, 144}

\* TM0CNT_H: idle, started with the interrupt
RunForTimerCtrl == {0, 192}

\* DMA0CNT_H and DMA1CNT_H: idle, channel 0 started at once
RunForDmaCtrl == { <<0, 0>>, <<33792, 0>> }

InitRunFor ==
    /\ \E ie \in RunForIe, f \in {0, 1}, ime \in {0, 1},
          h \in {"RUN", "HALT"}, dispstat \in RunForDispstat,
          tc \in RunForTimerCtrl, dc \in RunForDmaCtrl :
          LET b == ProgramChannels(
                       ProgramTimers(
                           MakeBus([ie |-> ie, if_ |-> f, ime |-> ime],
                                   IrqVideo(dispstat, <<"HBlank", 271, 159>>),
                                   DMAInit, WramInit, h),
                           0, tc),
                       0, dc)
          IN  /\ irq = b.irq
              /\ video = b.video
              /\ dma = b.dma
              /\ wram = b.wram
              /\ timer = b.timer
              /\ ram = b.ram
              /\ waitstate = b.waitstate
              /\ halt = b.halt
    /\ \E cpsr \in RunForCpsr :
          cpu = RemapRegisters([ARM7Init(ARM7Mode.User)
                                   EXCEPT !.cpsr = U32(cpsr)])
    /\ rom = RomImage(Program(1, 16777214))
    /\ reset = NoReset
    /\ sched = [pos |-> "loop"]
    /\ call = [op |-> "init"]

NextRunFor ==
    \/ SchedPPUStep
    \/ SchedCheck
    \/ SchedRun

SpecRunFor == InitRunFor /\ [][NextRunFor]_vars

\* IE & IF at the start of the iteration
C25_Fire == And(call.irq.ie, call.irq.if_)

C25_WitnessTimers ==
    /\ call.op = "SchedCheck"
    /\ halt = "HALT"
    /\ Bit(call.bus.irq.if_, 3) = 0
    /\ Bit(irq.if_, 3) = 1

\* an iteration that runs the DMA beside a CPU that could take an IRQ
C25_WitnessDMA ==
    /\ call.op = "SchedCheck"
    /\ DMAIsRunning(call.bus)
    /\ call.irq.ime = 1 /\ C25_Fire # 0
    /\ dma # call.bus.dma

-----------------------------------------------------------------------------
(* SpecPipe: ARM7::Step on an ARM and on a Thumb program of NOPs with one  *)
(* branch near the start and a branch back to the start near the end, from *)
(* an empty pipeline at 0x08000000.  The registers before each of the last *)
(* three calls are kept beside the state.                                  *)

\* the Thumb B with the 11-bit halfword offset off
THUMB_B(off) == 57344 + off

\* the halfword k of the Thumb program: the branch at `first`, a branch
\* from 0x08000116 back to 0x08000000 (offset -141 halfwords)
ThumbProgram(first, off) ==
    [k \in 1 .. 2 * ProgramWords |->
        IF k = first THEN THUMB_B(off)
        ELSE IF k = 140 THEN THUMB_B(1907)
        ELSE THUMB_NOP[2]]

\* the words of a program of halfwords
HWordPairs(hwords) ==
    [k \in 1 .. Len(hwords) \div 2 |-> <<hwords[2 * k], hwords[2 * k - 1]>>]

\* Thumb branch offsets: +0x40, +0, -4 (a branch to itself)
ThumbBranchInputs == {32, 0, 2046}

InitPipe ==
    /\ \E thumb \in BOOLEAN, first \in FirstInputs, mode \in Modes :
          IF thumb
          THEN /\ \E off \in ThumbBranchInputs :
                     rom = RomImage(HWordPairs(ThumbProgram(first, off)))
               /\ cpu = RemapRegisters(
                            [ARM7Init(mode) EXCEPT !.cpsr = U32(mode + Thumb)])
          ELSE /\ \E off \in BranchInputs :
                     rom = RomImage(Program(first, off))
               /\ cpu = ARM7Init(mode)
    /\ irq = InterruptInit
    /\ video = VideoInit
    /\ dma = DMAInit
    /\ wram = NoWram
    /\ timer = TimerInit
    /\ ram = RamInit
    /\ waitstate = WaitstateInit
    /\ halt = "RUN"
    /\ reset = NoReset
    /\ sched = NoSched
    /\ call = [op |-> "init", before |-> << >>]

PipeStep ==
    /\ StepModelled(cpu, Bus, rom)
    /\ cpu' = Step(cpu, Bus, rom)
    /\ call' = [op |-> "Step",
                before |-> SubSeq(<<cpu>> \o call.before, 1,
                                  IF Len(call.before) < 2
                                  THEN Len(call.before) + 1 ELSE 3)]
    /\ UNCHANGED <<irq, video, dma, wram, timer, ram, waitstate, halt, rom,
                   reset, sched>>

NextPipe == PipeStep

SpecPipe == InitPipe /\ [][NextPipe]_vars

C26_Thumb(c) == Bit(c.cpsr[2], 5) = 1

\* the address a Step from the registers c fetches from
C26_Fetch(c) ==
    IF C26_Thumb(c) THEN <<c.regs["r15"][1], (c.regs["r15"][2] \div 2) * 2>>
    ELSE <<c.regs["r15"][1], (c.regs["r15"][2] \div 4) * 4>>

C26_Size(c) == IF C26_Thumb(c) THEN U32(2) ELSE U32(4)

\* the instruction in memory at the address a, and what it is
C26_Instr(c, a) ==
    IF C26_Thumb(c) THEN <<0, ReadHWord(Bus, rom, a)>>
    ELSE ReadWord(Bus, rom, a)

C26_IsBranch(c, instr) ==
    IF C26_Thumb(c) THEN instr[2] \div 2048 = 28 ELSE instr[1] \div W8 = 234

C26_Target(c, instr) ==
    IF C26_Thumb(c)
    THEN Add32(C26_Fetch(c),
               IF instr[2] % 2048 >= 1024
               THEN Sub32(U32(0), U32((2048 - (instr[2] % 2048)) * 2))
               ELSE U32((instr[2] % 2048) * 2))
    ELSE LET off == (instr[1] % W8) * W16 + instr[2]
         IN  IF off >= 8388608
             THEN Sub32(C26_Fetch(c),
                        <<((16777216 - off) * 4) \div W16,
                          ((16777216 - off) * 4) % W16>>)
             ELSE Add32(C26_Fetch(c),
                        <<(off * 4) \div W16, (off * 4) % W16>>)

\* a Step that executes nothing: the status and r15 advance, the registers
\* and the status word stay
C26_OnlyAdvances(c) ==
    /\ cpu.pipe_status = (IF c.pipe_status = 4 THEN 2 ELSE c.pipe_status + 1)
    /\ cpu.regs = [c.regs EXCEPT !["r15"] = Add32(C26_Fetch(c), C26_Size(c))]
    /\ cpu.cpsr = c.cpsr

\* C26: the pipeline status is always 0 .. 4 and runs 0, 1, 2, 3, 4, 2, 3,
\* 4, ..; a Step executes only at a status of 2 or more, and then the
\* instruction fetched two Steps earlier and decoded one Step earlier; a
\* Step that flushes sets the status to 0 and does not advance r15, and
\* the two Steps after it execute nothing; every other Step advances r15 by
\* 2 in Thumb state and by 4 in ARM state.
C26_PipelineOrder ==
    /\ cpu.pipe_status \in 0 .. 4
    /\ (call.op = "Step") =>
          LET c == call.before[1]
          IN  IF c.pipe_status < 2 THEN C26_OnlyAdvances(c)
              ELSE /\ Len(call.before) = 3
                   /\ call.before[2].pipe_status # 0
                   /\ LET a     == C26_Fetch(call.before[3])
                          instr == C26_Instr(c, a)
                          slot  == c.pipe_status - 1
                      IN  /\ call.before[2].pipe_opcode[slot] = instr
                          /\ c.pipe_decode[slot] =
                                (IF C26_IsBranch(c, instr) THEN "branch"
                                 ELSE "nop")
                          /\ IF C26_IsBranch(c, instr)
                             THEN /\ cpu.pipe_status = 0
                                  /\ cpu.regs = [c.regs EXCEPT !["r15"] =
                                                    C26_Target(c, instr)]
                                  /\ cpu.cpsr = c.cpsr
                             ELSE C26_OnlyAdvances(c)

\* a Thumb Step at status 4 has executed a branch, which was fetched two
\* Steps earlier, and has flushed the pipeline
C26_Witness ==
    /\ call.op = "Step"
    /\ Len(call.before) = 3
    /\ C26_Thumb(cpu)
    /\ call.before[1].pipe_status = 4
    /\ call.before[3].pipe_status = 2
    /\ cpu.pipe_status = 0
    /\ cpu.regs["r15"] = <<2048, 0>>

\* the second Step after a flush has executed nothing, in ARM state
C26_WitnessRefill ==
    /\ call.op = "Step"
    /\ Len(call.before) = 3
    /\ ~C26_Thumb(cpu)
    /\ call.before[3].pipe_status \in 2 .. 4
    /\ call.before[2].pipe_status = 0
    /\ call.before[1].pipe_status = 1
    /\ cpu.pipe_status = 2

-----------------------------------------------------------------------------
(* The line timing of GBAVideo::Step, over whole frames (SpecPPU).         *)

\* the Step was the last of its phase: the 960th of Scanline, the 272nd of
\* HBlank, the 1232nd of a line of VBlank
C27_LastTick ==
    call.m_Ticks = (CASE call.m_State = "Scanline" -> 959
                      [] call.m_State = "HBlank"   -> 271
                      [] call.m_State = "VBlank"   -> 1231)

\* a Step inside a phase, and the Steps that end a phase but for the one
\* that enters HBlank
C27_Timing ==
    /\ video.m_Ticks < (CASE video.m_State = "Scanline" -> 960
                          [] video.m_State = "HBlank"   -> 272
                          [] video.m_State = "VBlank"   -> 1232)
    /\ (call.op = "Step" /\ ~C27_LastTick) =>
          /\ video.m_State = call.m_State
          /\ video.m_Ticks = call.m_Ticks + 1
          /\ video.m_VCount = call.m_VCount
          /\ irq.if_ = call.if_
          /\ ~video.m_RenderScanline
    /\ (call.op = "Step" /\ C27_LastTick /\ call.m_State = "HBlank") =>
          /\ call.m_VCount < 160
          /\ video.m_VCount = call.m_VCount + 1
          /\ video.m_State = (IF video.m_VCount < 160 THEN "Scanline"
                              ELSE "VBlank")
          /\ video.m_Ticks = 0
          /\ ~video.m_HBlankDMA
    /\ (call.op = "Step" /\ C27_LastTick /\ call.m_State = "VBlank") =>
          /\ video.m_Ticks = 0
          /\ \/ video.m_State = "VBlank"
                /\ video.m_VCount = call.m_VCount + 1
             \/ video.m_State = "Scanline" /\ video.m_VCount = 0

\* the Step that enters HBlank, with the request bit `bit` of IF
C27_EnterHBlank(bit) ==
    (call.op = "Step" /\ C27_LastTick /\ call.m_State = "Scanline") =>
        /\ call.m_VCount < 160
        /\ video.m_State = "HBlank"
        /\ video.m_Ticks = 0
        /\ video.m_VCount = call.m_VCount
        /\ video.m_HBlankDMA
        /\ video.m_RenderScanline
        /\ irq.if_ = (IF video.m_HBlankIRQ /\ Bit(call.if_, bit) = 0
                      THEN call.if_ + 2^bit ELSE call.if_)

\* the Step that ends a line of VBlank adds 1 to VCOUNT
C27_VBlankCounts ==
    (call.op = "Step" /\ C27_LastTick /\ call.m_State = "VBlank") =>
        video.m_VCount = call.m_VCount + 1

\* C27: from the start of a visible line the PPU is in Scanline for 960
\* Steps and then in HBlank for 272 Steps; the Step that enters HBlank
\* raises the HBlank-DMA signal, flags the line for rendering and sets the
\* HBlank request (value 2) of IF exactly when the HBlank IRQ is enabled;
\* the Step that leaves HBlank adds 1 to VCOUNT and goes to Scanline when
\* the new VCOUNT is below 160 and to VBlank when it is 160; in VBlank
\* VCOUNT goes up by 1 every 1232 Steps.
C27_LineTimingAsStated ==
    C27_Timing /\ C27_EnterHBlank(1) /\ C27_VBlankCounts

\* all of it but the count in VBlank holds: a line of VBlank ends after
\* 1232 Steps, with VCOUNT one higher or, from line 226, 0
C27_LineTiming == C27_Timing /\ C27_EnterHBlank(1)

\* the request of the HBlank is bit 1 of IF, not bit 2
C27_LineTimingBit2 == C27_Timing /\ C27_EnterHBlank(2)

\* the PPU has entered the HBlank of line 159 with the IRQ enabled and
\* requested before, and of line 0 with the IRQ disabled
C27_Witness ==
    /\ call.op = "Step" /\ call.m_State = "Scanline"
    /\ video.m_State = "HBlank"
    /\ video.m_VCount = 159
    /\ video.m_HBlankIRQ
    /\ Bit(irq.if_, 1) = 1

C27_WitnessFirst ==
    /\ call.op = "Step" /\ call.m_State = "Scanline"
    /\ video.m_State = "HBlank"
    /\ video.m_VCount = 0
    /\ video.m_HBlankIRQ
    /\ call.if_ = 0 /\ irq.if_ = 2

C27_WitnessVBlank ==
    /\ call.op = "Step" /\ call.m_State = "VBlank"
    /\ call.m_VCount = 200 /\ video.m_VCount = 201

-----------------------------------------------------------------------------
(* The VCount request of GBAVideo::Step (SpecIrq).                         *)

\* a Step with the VCount IRQ enabled has changed VCOUNT
C28_Case ==
    /\ call.op = "Step"
    /\ call.video.m_VCountIRQ
    /\ video.m_VCount # call.video.m_VCount

\* C28: with the VCount IRQ enabled, a PPU step that changes VCOUNT to the
\* VCount setting sets the VCount flag (value 4) of IF, and a step that
\* changes VCOUNT to another value does not set it.
C28_FlagWhenLineReached ==
    C28_Case =>
        Bit(irq.if_, 2) = (IF video.m_VCount = video.m_VCountSetting
                           THEN 1 ELSE Bit(call.irq.if_, 2))

\* the flag is set by the step that leaves the line of the setting
C28_FlagWhenLineLeft ==
    C28_Case =>
        Bit(irq.if_, 2) = (IF call.video.m_VCount = video.m_VCountSetting
                           THEN 1 ELSE Bit(call.irq.if_, 2))

\* VCOUNT has reached the setting, 159, without the flag
C28_Reached ==
    /\ C28_Case
    /\ video.m_VCount = 159 /\ video.m_VCountSetting = 159
    /\ Bit(irq.if_, 2) = 0

-----------------------------------------------------------------------------
(* SpecDMARepeat: the end of a transfer and the latching of the shadows.   *)
(* The channels are programmed as in the plain layout of SpecDMA; the      *)
(* guest writes control registers, among them one that repeats with the    *)
(* destination control Reload and one that disables the channel.           *)

RepeatCounts == {0, 1, 2}

\* DMAnCNT_H: enable, 32-bit, immediate (0x8400); the same with repeat
\* (0x8600); repeat with destination control Reload (0x8660); 32-bit,
\* immediate, not enabled (0x0400)
RepeatCtrlInputs == {33792, 34304, 34400, 1024}

InitDMARepeat ==
    /\ \E n \in RepeatCounts :
          LET b == ProgramLayout(
                       MakeBus(InterruptInit, VideoInit, DMAInit, WramInit,
                               "RUN"),
                       "plain", n)
          IN  /\ irq = b.irq
              /\ video = b.video
              /\ dma = b.dma
              /\ wram = b.wram
              /\ timer = b.timer
              /\ ram = b.ram
              /\ waitstate = b.waitstate
              /\ halt = b.halt
    /\ cpu = NoCpu
    /\ rom = NoRom
    /\ reset = NoReset
    /\ sched = NoSched
    /\ call = [op |-> "init", n |-> 0]

NextDMARepeat ==
    \/ \E i \in 0 .. 3, value \in RepeatCtrlInputs :
          GuestWriteDMACNT_H(i, value)
    \/ RunDMAPass

SpecDMARepeat == InitDMARepeat /\ [][NextDMARepeat]_vars

\* channel i was started by the pass
C29_Ran(i) ==
    /\ call.op = "RunDMA"
    /\ call.dma.ch[i].enable
    /\ call.dma.ch[i].start_time = DMA_IMMEDIATE

\* source_int and dest_int of a channel of the registers p after count_int
\* units, the addresses counting up
C29_Advanced(p, a) ==
    Add32(a, U32((IF p.size = DMA_WORD THEN 4 ELSE 2) * p.count_int))

\* the state of a channel after its transfer, the count latched being
\* count(p, i)
C29_Completed(count(_, _)) ==
    \A i \in 0 .. 3 :
        C29_Ran(i) =>
            LET p == call.dma.ch[i]
                d == dma.ch[i]
            IN  /\ d.source = p.source /\ d.dest = p.dest
                /\ d.count = p.count
                /\ d.source_int = C29_Advanced(p, p.source_int)
                /\ IF p.repeat
                   THEN /\ d.enable
                        /\ d.count_int = count(p, i)
                        /\ d.dest_int =
                              (IF p.dest_control = DMA_RELOAD
                               THEN And32(p.dest, dma_dest_mask[i + 1])
                               ELSE C29_Advanced(p, p.dest_int))
                   ELSE /\ ~d.enable
                        /\ d.count_int = 0
                        /\ d.dest_int = C29_Advanced(p, p.dest_int)

\* the programmed count under the mask, 0 standing for the mask + 1
C29_Count(p, i) ==
    IF And(p.count, dma_count_mask[i + 1]) = 0
    THEN dma_count_mask[i + 1] + 1
    ELSE And(p.count, dma_count_mask[i + 1])

\* the same, in the 16 bits of count_int
C29_Count16(p, i) == C29_Count(p, i) % W16

\* C29: when the transfer of a channel is complete, with repeat set
\* count_int is latched again from the programmed count (0 standing for the
\* mask + 1), dest_int is latched again from the programmed destination
\* only when the destination control is Reload, source_int is not latched
\* again and the channel stays enabled; with repeat clear the channel is
\* disabled and its programmed source, destination and count stay.
C29_CompletionRelatches == C29_Completed(C29_Count)

\* all of it holds with the count narrowed to 16 bits
C29_CompletionRelatches16 == C29_Completed(C29_Count16)

\* a repeating channel with the destination control Reload has moved words
C29_Repeated ==
    /\ C29_Ran(1)
    /\ call.dma.ch[1].repeat
    /\ call.dma.ch[1].dest_control = DMA_RELOAD
    /\ call.dma.ch[1].count_int = 2
    /\ dma.ch[1].count_int = 2
    /\ dma.ch[1].dest_int # C29_Advanced(call.dma.ch[1],
                                         call.dma.ch[1].dest_int)

\* the shadows of the channel d as latched from its registers
C30_Latched(d, i) ==
    /\ d.source_int = And32(d.source, dma_source_mask[i + 1])
    /\ d.dest_int = And32(d.dest, dma_dest_mask[i + 1])
    /\ d.count_int = C29_Count16(d, i)

C30_Kept(d, p) ==
    /\ d.source_int = p.source_int
    /\ d.dest_int = p.dest_int
    /\ d.count_int = p.count_int

\* C30: source_int, dest_int and count_int are latched only when the enable
\* bit goes from 0 to 1: a write to DMAnCNT_H that keeps an enabled channel
\* enabled leaves them as they are, and so does a write that clears the
\* enable bit or leaves it clear.
C30_LatchedOnEnableEdgeOnly ==
    (call.op = "WriteDMACNT_H") =>
        LET p == call.dma.ch[call.i]
            d == dma.ch[call.i]
        IN  IF ~p.enable /\ d.enable THEN C30_Latched(d, call.i)
            ELSE C30_Kept(d, p)

\* the shadows are latched by every write that leaves the channel enabled,
\* and kept by the others
C30_LatchedWheneverEnabled ==
    (call.op = "WriteDMACNT_H") =>
        LET p == call.dma.ch[call.i]
            d == dma.ch[call.i]
        IN  IF d.enable THEN C30_Latched(d, call.i) ELSE C30_Kept(d, p)

\* a write has kept a channel enabled whose source_int had moved on
C30_Relatched ==
    /\ call.op = "WriteDMACNT_H"
    /\ call.dma.ch[call.i].enable
    /\ dma.ch[call.i].enable
    /\ call.dma.ch[call.i].source_int # dma.ch[call.i].source_int

\* a write has disabled a channel whose source_int had moved on
C30_Disabled ==
    /\ call.op = "WriteDMACNT_H"
    /\ call.dma.ch[call.i].enable
    /\ ~dma.ch[call.i].enable
    /\ dma.ch[call.i].source_int # dma.ch[call.i].source

\* the transfer of channel i, made since its shadows were last latched, has
\* moved source_int on
C31_Transferred(d, i) ==
    /\ d.enable
    /\ d.start_time = DMA_IMMEDIATE
    /\ d.source_int # And32(d.source, dma_source_mask[i + 1])

\* C31: an Immediate channel makes one transfer per 0-to-1 edge of its
\* enable bit: a pass that finds the channel enabled after its transfer,
\* no write to its control register having come in between, moves no unit
\* on it, also when the channel repeats.
C31_OneTransferPerEdge ==
    (call.op = "RunDMA") =>
        \A i \in 0 .. 3 :
            C31_Transferred(call.dma.ch[i], i) =>
                /\ dma.ch[i].source_int = call.dma.ch[i].source_int
                /\ dma.ch[i].dest_int = call.dma.ch[i].dest_int

\* a channel that does not repeat is disabled by its transfer, so that no
\* pass finds it enabled with its transfer made
C31_OnceWithoutRepeat ==
    \A i \in 0 .. 3 : C31_Transferred(dma.ch[i], i) => dma.ch[i].repeat

\* a second pass has moved the same repeating Immediate channel on again
C31_TransferredAgain ==
    /\ call.op = "RunDMA"
    /\ C31_Transferred(call.dma.ch[0], 0)
    /\ dma.ch[0].source_int # call.dma.ch[0].source_int

-----------------------------------------------------------------------------
(* SpecBlank: the DMA channels started by the PPU.  The channels are       *)
(* programmed as in the plain layout with a count of one word; the PPU is  *)
(* one tick before the end of a phase; the guest writes control registers, *)
(* the PPU is stepped and DMA passes are run in any order.  sched.armed    *)
(* holds the start modes whose blanking interval the PPU has entered since *)
(* the last DMA pass.                                                      *)

MaxBlankOps == 4

\* DMAnCNT_H: enable, 32-bit, started by VBlank (0x9400), by HBlank (0xA400)
\* and Special (0xB400)
BlankCtrlInputs == {37888, 41984, 46080}

BlankPhases == { <<"Scanline", 959, 10>>, <<"HBlank", 271, 159>> }

InitBlank ==
    /\ \E phase \in BlankPhases :
          LET b == ProgramLayout(
                       MakeBus(InterruptInit, IrqVideo(0, phase), DMAInit,
                               WramInit, "RUN"),
                       "plain", 1)
          IN  /\ irq = b.irq
              /\ video = b.video
              /\ dma = b.dma
              /\ wram = b.wram
              /\ timer = b.timer
              /\ ram = b.ram
              /\ waitstate = b.waitstate
              /\ halt = b.halt
    /\ cpu = NoCpu
    /\ rom = NoRom
    /\ reset = NoReset
    /\ sched = [pos |-> "idle", armed |-> {}]
    /\ call = [op |-> "init", n |-> 0]

BlankWrite(i, value) ==
    /\ call.n < MaxBlankOps
    /\ SetBus(WriteHWord(Bus, DMARegister(i, DMA0CNT_H), value))
    /\ call' = [op |-> "WriteDMACNT_H", i |-> i, value |-> value,
                dma |-> dma, n |-> call.n + 1]
    /\ UNCHANGED <<cpu, rom, reset, sched>>

BlankStep ==
    LET r == VideoStep(video, irq.if_)
        entered ==
            IF r.video.m_State = video.m_State THEN sched.armed
            ELSE IF r.video.m_State = "HBlank" THEN {DMA_HBLANK}
            ELSE IF r.video.m_State = "VBlank" THEN {DMA_VBLANK}
            ELSE {}
    IN  /\ call.n < MaxBlankOps
        /\ video' = r.video
        /\ irq' = [irq EXCEPT !.if_ = r.if_]
        /\ sched' = [sched EXCEPT !.armed = entered]
        /\ call' = [op |-> "Step", video |-> video, n |-> call.n + 1]
        /\ UNCHANGED <<dma, wram, timer, ram, waitstate, halt, cpu, rom,
                       reset>>

BlankRunDMA ==
    /\ call.n < MaxBlankOps
    /\ \A i \in 0 .. 3 : DMAStarts(Bus, i) => TransferModelled(Bus, i)
    /\ SetBus(RunDMA(Bus, rom))
    /\ sched' = [sched EXCEPT !.armed = {}]
    /\ call' = [op |-> "RunDMA", dma |-> dma, wram |-> wram, irq |-> irq,
                video |-> video, armed |-> sched.armed, n |-> call.n + 1]
    /\ UNCHANGED <<cpu, rom, reset>>

NextBlank ==
    \/ \E i \in 0 .. 3, value \in BlankCtrlInputs : BlankWrite(i, value)
    \/ BlankStep
    \/ BlankRunDMA

SpecBlank == InitBlank /\ [][NextBlank]_vars

\* the pass has moved the word of channel i
C32_Moved(i) == dma.ch[i].source_int # call.dma.ch[i].source_int

\* channel i was enabled, with a word to move, when the pass began
C32_Waiting(i) ==
    /\ call.op = "RunDMA"
    /\ call.dma.ch[i].enable
    /\ call.dma.ch[i].count_int # 0

\* C32: every enabled channel started by VBlank (by HBlank) makes its
\* transfer in the DMA pass that follows the entry of the PPU to VBlank
\* (to HBlank), two or more channels of one start mode included, and in no
\* other pass; a Special channel never transfers.
C32_BlankChannelsTransferOnEntry ==
    \A i \in 0 .. 3 :
        C32_Waiting(i) =>
            (C32_Moved(i) <=>
                /\ call.dma.ch[i].start_time \in {DMA_VBLANK, DMA_HBLANK}
                /\ call.dma.ch[i].start_time \in call.armed)

\* the flag of the start mode of channel i, at the turn of channel i: the
\* flag is taken by the first enabled channel of that mode
C32_FlagAtTurn(i) ==
    /\ \/ /\ call.dma.ch[i].start_time = DMA_VBLANK
          /\ call.video.m_VBlankDMA
       \/ /\ call.dma.ch[i].start_time = DMA_HBLANK
          /\ call.video.m_HBlankDMA
    /\ \A j \in 0 .. i - 1 :
          ~(/\ call.dma.ch[j].enable
            /\ call.dma.ch[j].start_time = call.dma.ch[i].start_time)

\* a channel transfers exactly when it finds the flag of its mode set
C32_FirstChannelTakesFlag ==
    \A i \in 0 .. 3 :
        C32_Waiting(i) => (C32_Moved(i) <=> C32_FlagAtTurn(i))

\* the flag of a blanking interval is set on entry and stays set until a
\* channel takes it or the interval ends
C32_FlagOutlivesPass ==
    /\ call.op = "RunDMA"
    /\ call.armed = {}
    /\ C32_Waiting(0)
    /\ C32_Moved(0)

\* two HBlank channels were waiting in the pass after the entry
C32_SharedMode ==
    /\ call.op = "RunDMA"
    /\ DMA_HBLANK \in call.armed
    /\ C32_Waiting(0) /\ call.dma.ch[0].start_time = DMA_HBLANK
    /\ C32_Waiting(1) /\ call.dma.ch[1].start_time = DMA_HBLANK
    /\ C32_Moved(0)
    /\ ~C32_Moved(1)

-----------------------------------------------------------------------------
(* The cycle cost of a DMA pass (SpecDMARepeat).                           *)

\* the cycles of the units channel i moves in the pass: count_int units,
\* each of one access of its source and one of its destination
C33_ChannelCycles(i) ==
    LET p == call.dma.ch[i]
    IN  IF C29_Ran(i)
        THEN p.count_int *
               (SequentialAccess(Bus, p.dest_int, p.size = DMA_WORD)
                  + SequentialAccess(Bus, p.source_int, p.size = DMA_WORD))
        ELSE 0

\* C33: after RunDMA the recorded cycle cost is 2 plus the source and
\* destination access cycles of every unit moved by any channel in the
\* call, and the did-transfer flag tells whether some channel transferred.
C33_CostOfThePass ==
    (call.op = "RunDMA") =>
        /\ dma.m_DMACycles =
              2 + C33_ChannelCycles(0) + C33_ChannelCycles(1)
                + C33_ChannelCycles(2) + C33_ChannelCycles(3)
        /\ dma.m_DidTransfer <=> \E i \in 0 .. 3 : C29_Ran(i)

\* the enabled channels the pass found
C33_Enabled == { i \in 0 .. 3 : call.dma.ch[i].enable }

C33_Last == CHOOSE i \in C33_Enabled : \A j \in C33_Enabled : j <= i

\* the two members are assigned at every enabled channel, so that they
\* tell of the last enabled channel alone, and of an earlier call when no
\* channel is enabled
C33_CostOfTheLastChannel ==
    (call.op = "RunDMA") =>
        IF C33_Enabled = {}
        THEN /\ dma.m_DMACycles = call.dma.m_DMACycles
             /\ dma.m_DidTransfer = call.dma.m_DidTransfer
        ELSE /\ dma.m_DMACycles = 2 + C33_ChannelCycles(C33_Last)
             /\ dma.m_DidTransfer = C29_Ran(C33_Last)

\* two channels have moved a word each and the cost is that of one
C33_TwoChannels ==
    /\ call.op = "RunDMA"
    /\ C29_Ran(0) /\ call.dma.ch[0].count_int = 1
    /\ C29_Ran(1) /\ call.dma.ch[1].count_int = 1
    /\ C33_Enabled = {0, 1}
    /\ dma.m_DMACycles = 14

-----------------------------------------------------------------------------
(* SpecChain: the guest has programmed the four timers, each by a 32-bit   *)
(* write of control and count to TMnCNT_L followed by a 16-bit write of    *)
(* the reload value 16; then the timers are ticked.                        *)

\* TMnCNT_H: off; enabled with prescaler 1 (0x80); enabled with prescaler
\* 64 (0x81); enabled in count-up mode (0x84)
ChainCtrl == {0, 128, 129, 132}

\* the count a started timer begins with
ChainCount == {65535, 5}

ProgramTimer(b, n, ctrl, count) ==
    WriteHWord(WriteWord(b, TimerRegister(n, TM0CNT_L), <<ctrl, count>>),
               TimerRegister(n, TM0CNT_L), 16)

InitChain ==
    /\ \E ctrl \in [0 .. 3 -> ChainCtrl], count \in [0 .. 3 -> ChainCount] :
          LET b0 == MakeBus(InterruptInit, VideoInit, DMAInit, NoWram, "RUN")
              b1 == ProgramTimer(b0, 0, ctrl[0], count[0])
              b2 == ProgramTimer(b1, 1, ctrl[1], count[1])
              b3 == ProgramTimer(b2, 2, ctrl[2], count[2])
              b4 == ProgramTimer(b3, 3, ctrl[3], count[3])
          IN  /\ irq = b4.irq
              /\ video = b4.video
              /\ dma = b4.dma
              /\ wram = b4.wram
              /\ timer = b4.timer
              /\ ram = b4.ram
              /\ waitstate = b4.waitstate
              /\ halt = b4.halt
    /\ cpu = NoCpu
    /\ rom = NoRom
    /\ reset = NoReset
    /\ sched = NoSched
    /\ call = [op |-> "init", n |-> 0, ticks |-> 0]

NextChain == TimerTick

SpecChain == InitChain /\ [][NextChain]_vars

\* the count of timer i has gone on by one in the step, to the reload value
\* from 0xFFFF
C34_Advanced(i) ==
    timer[i].count =
        IF call.timer[i].count = 65535 THEN call.timer[i].reload
        ELSE call.timer[i].count + 1

C34_Kept(i) == timer[i].count = call.timer[i].count

\* the value of the local `overflow` when the loop comes to timer i
RECURSIVE C34_Carry(_)
C34_Carry(i) ==
    IF i = 0 THEN FALSE
    ELSE LET t == call.timer[i - 1]
         IN  IF t.enable /\ TimerFires(t, C34_Carry(i - 1))
             THEN t.count = 65535
             ELSE C34_Carry(i - 1)

\* timer i has overflowed in the step
C34_Overflowed(i) ==
    /\ call.timer[i].enable
    /\ TimerFires(call.timer[i], C34_Carry(i))
    /\ call.timer[i].count = 65535

C34_CountUp(i) ==
    /\ call.op = "RunTimer"
    /\ call.timer[i].enable
    /\ call.timer[i].countup

\* C34: in a timer step an enabled timer i+1 in count-up mode advances by
\* one exactly when timer i has overflowed in that step; an overflow of an
\* earlier timer does not advance it when timer i is disabled or has not
\* overflowed; timer 0 in count-up mode never advances.
C34_ChainedToPredecessor ==
    \A i \in 0 .. 3 :
        C34_CountUp(i) =>
            IF i # 0 /\ C34_Overflowed(i - 1)
            THEN C34_Advanced(i)
            ELSE C34_Kept(i)

\* a count-up timer advances exactly when the local `overflow` is set at its
\* turn: the overflow of the nearest earlier timer that advanced
C34_ChainedToCarry ==
    \A i \in 0 .. 3 :
        C34_CountUp(i) =>
            IF C34_Carry(i) THEN C34_Advanced(i) ELSE C34_Kept(i)

\* timer 2 has counted an overflow of timer 0 over the disabled timer 1
C34_OverDisabled ==
    /\ C34_CountUp(2)
    /\ ~call.timer[1].enable
    /\ C34_Overflowed(0)
    /\ call.timer[2].count = 5
    /\ timer[2].count = 6

\* timer 1 has counted the overflow of timer 0
C34_Cascade ==
    /\ C34_CountUp(1)
    /\ C34_Overflowed(0)
    /\ call.timer[1].count = 5
    /\ timer[1].count = 6

-----------------------------------------------------------------------------
(* SpecPrescale: timer 0 behind its prescaler.  The guest has started      *)
(* timer 0 with count and reload 0xFFFE by one 32-bit write, and timer 1   *)
(* in count-up mode, which counts the overflows of timer 0; the timers     *)
(* have been ticked a few times and the guest may then have stopped timer  *)
(* 0.  From there the timers are ticked MaxPrescaleTicks times.            *)
(* call.since counts the steps timer 0 has taken, enabled, since its count *)
(* last changed.                                                           *)

MaxPrescaleTicks == 2050

\* TM0CNT_H: enabled with prescaler 1, 64, 256, 1024 (0x80 .. 0x83), and
\* the first two with the IRQ flag (0xC0, 0xC1)
PrescaleCtrl == {128, 129, 130, 131, 192, 193}

\* ticks before the observation starts
PrescaleWarmup == {0, 3}

\* the step counter after one step from the timers old to the timers new
SinceAfter(old, new, since) ==
    IF ~old[0].enable THEN since
    ELSE IF new[0].count # old[0].count THEN 0
    ELSE since + 1

RECURSIVE Warm(_, _, _)
Warm(b, since, k) ==
    IF k = 0 THEN [bus |-> b, since |-> since]
    ELSE Warm(RunTimer(b), SinceAfter(b.timer, RunTimer(b).timer, since),
              k - 1)

InitPrescale ==
    /\ \E ctrl \in PrescaleCtrl, k \in PrescaleWarmup, off \in BOOLEAN :
          LET b0 == MakeBus(InterruptInit, VideoInit, DMAInit, NoWram, "RUN")
              b1 == WriteWord(b0, TimerRegister(0, TM0CNT_L),
                              <<ctrl, 65534>>)
              b2 == WriteWord(b1, TimerRegister(1, TM0CNT_L), <<132, 0>>)
              w  == Warm(b2, 0, k)
              b3 == IF off
                    THEN WriteHWord(w.bus, TimerRegister(0, TM0CNT_H),
                                    ctrl - 128)
                    ELSE w.bus
          IN  /\ irq = b3.irq
              /\ video = b3.video
              /\ dma = b3.dma
              /\ wram = b3.wram
              /\ timer = b3.timer
              /\ ram = b3.ram
              /\ waitstate = b3.waitstate
              /\ halt = b3.halt
              /\ call = [op |-> "init", n |-> 0, since |-> w.since]
    /\ cpu = NoCpu
    /\ rom = NoRom
    /\ reset = NoReset
    /\ sched = NoSched

PrescaleTick ==
    /\ call.n < MaxPrescaleTicks
    /\ SetBus(RunTimer(Bus))
    /\ call' = [op |-> "RunTimer", timer |-> timer, irq |-> irq,
                before |-> call.since,
                since |-> SinceAfter(timer, RunTimer(Bus).timer, call.since),
                n |-> call.n + 1]
    /\ UNCHANGED <<cpu, rom, reset, sched>>

NextPrescale == PrescaleTick

SpecPrescale == InitPrescale /\ [][NextPrescale]_vars

\* the prescaler selected by the two low bits of TMnCNT_H
C35_Prescaler(t) ==
    CASE t.clock = 0 -> 1 [] t.clock = 1 -> 64 [] t.clock = 2 -> 256
      [] t.clock = 3 -> 1024

\* the step has left timer 1, which counts the overflows, and IF alone
C35_NoOverflow ==
    /\ timer[1].count = call.timer[1].count
    /\ irq.if_ = call.irq.if_

\* the step has marked an overflow of timer 0: timer 1 has counted it, and
\* bit 3 of IF is set when timer 0 has its IRQ flag
C35_Overflow ==
    /\ timer[1].count = call.timer[1].count + 1
    /\ irq.if_ = IF call.timer[0].interrupt THEN Or(call.irq.if_, 8)
                 ELSE call.irq.if_

\* C35: an enabled timer that is not in count-up mode, with prescaler p,
\* advances by one on every p-th step and on no other; an advance from
\* 0xFFFF loads the reload value, marks the overflow for that step and
\* sets the IF bit of the timer iff its IRQ flag is on; the count and the
\* tick counter of a disabled timer are left alone.
C35_EveryPthStep ==
    (call.op = "RunTimer") =>
        LET t == call.timer[0]
        IN  IF ~t.enable
            THEN /\ timer[0] = t
                 /\ C35_NoOverflow
            ELSE IF call.before + 1 # C35_Prescaler(t)
            THEN /\ timer[0].count = t.count
                 /\ C35_NoOverflow
            ELSE IF t.count # 65535
            THEN /\ timer[0].count = t.count + 1
                 /\ C35_NoOverflow
            ELSE /\ timer[0].count = t.reload
                 /\ C35_Overflow

\* timer 0 has overflowed on its 1024th step for the second time
C35_Witness ==
    /\ call.op = "RunTimer"
    /\ call.timer[0].enable
    /\ call.timer[0].clock = 3
    /\ call.before = 1023
    /\ call.timer[0].count = 65535
    /\ timer[0].count = 65534
    /\ timer[1].count = 1
    /\ call.n > 2040

\* a timer with the IRQ flag has raised bit 3 of IF on its 64th step
C35_WitnessIRQ ==
    /\ call.op = "RunTimer"
    /\ call.timer[0].clock = 1
    /\ call.timer[0].interrupt
    /\ call.before = 63
    /\ call.irq.if_ = 0
    /\ irq.if_ = 8

\* a stopped timer has kept a tick counter of 3 over a step
C35_WitnessStopped ==
    /\ call.op = "RunTimer"
    /\ ~call.timer[0].enable
    /\ timer[0].ticks = 3

-----------------------------------------------------------------------------
(* GBAVideo::Render: the composition of a line.  The line buffers are      *)
(* functions of the columns looked at, some of the 240.  The renderers of  *)
(* the backgrounds and of the sprites (RenderBackgroundMode0/1,            *)
(* RenderSprites) are stood for by the scene: the pixel each of them       *)
(* leaves in its line buffer.  The video mode is 0, which renders the four *)
(* backgrounds.                                                            *)

Opaque == <<65280, 0>>                    \* 0xFF000000

Alpha(color) == color[1] \div W8          \* color >> 24

Line(columns, color) == [i \in columns |-> color]

\* DrawLineToBuffer on the line m_VCount of m_Buffer
DrawLineToBuffer(m_Buffer, line_buffer, backdrop) ==
    [i \in DOMAIN m_Buffer |->
        IF backdrop \/ Alpha(line_buffer[i]) # 0
        THEN Or32(line_buffer[i], Opaque)
        ELSE m_Buffer[i]]

OverlayLineBuffers(dst, src) ==
    [i \in DOMAIN dst |->
        IF Alpha(src[i]) # 0 THEN Or32(src[i], Opaque) ELSE dst[i]]

\* the layer test of a composition loop: <<"none", 0>> when no window is
\* enabled, <<"out", 0>> for the outer area, <<"in", i>> for the inside of
\* window i
LayerBG(v, area, k) ==
    CASE area[1] = "none" -> TRUE
      [] area[1] = "out"  -> v.m_WinOut.bg[k]
      [] area[1] = "in"   -> v.m_Win[area[2]].bg_in[k]

LayerObj(v, area) ==
    /\ v.m_Obj.enable
    /\ CASE area[1] = "none" -> TRUE
         [] area[1] = "out"  -> v.m_WinOut.obj
         [] area[1] = "in"   -> v.m_Win[area[2]].obj_in

\* the line is drawn to m_Buffer, and overlaid on the buffer of a window
DrawLayer(area, buffer, line, backdrop) ==
    IF area[1] \in {"none", "out"}
    THEN DrawLineToBuffer(buffer, line, backdrop)
    ELSE OverlayLineBuffers(buffer, line)

\* the two nested loops of a composition, from the background j of the
\* priority i on: st is [buffer, first_bg]
RECURSIVE ComposeLoop(_, _, _, _, _)
ComposeLoop(v, st, area, i, j) ==
    IF i < 0 THEN st
    ELSE IF j < 0
    THEN ComposeLoop(
             v,
             IF LayerObj(v, area)
             THEN [st EXCEPT !.buffer =
                      DrawLayer(area, @, v.m_ObjBuffer[i], FALSE)]
             ELSE st,
             area, i - 1, 3)
    ELSE ComposeLoop(
             v,
             IF v.m_BG[j].enable /\ v.m_BG[j].priority = i
                   /\ LayerBG(v, area, j)
             THEN [buffer   |-> DrawLayer(area, st.buffer, v.m_BgBuffer[j],
                                          st.first_bg),
                   first_bg |-> FALSE]
             ELSE st,
             area, i, j - 1)

\* the test of the lines of window w against m_VCount
WindowOnLine(w, m_VCount) ==
    \/ w.top <= w.bottom /\ m_VCount >= w.top /\ m_VCount <= w.bottom
    \/ w.top > w.bottom /\ ~(m_VCount <= w.top /\ m_VCount >= w.bottom)

\* "make the window buffer transparent in the outer area"
WindowMask(w, win_buffer) ==
    [j \in DOMAIN win_buffer |->
        IF w.left <= w.right + 1
        THEN IF j <= w.left \/ j >= w.right THEN U32(0) ELSE win_buffer[j]
        ELSE IF j >= w.right /\ j <= w.left THEN U32(0) ELSE win_buffer[j]]

\* the buffer of window i, drawn over the line
ComposeWindow(v, m_Buffer, i) ==
    LET w == v.m_Win[i]
        win_buffer ==
            ComposeLoop(v, [buffer   |-> Line(DOMAIN m_Buffer, Opaque),
                            first_bg |-> FALSE],
                        <<"in", i>>, 3, 3).buffer
    IN  IF w.enable /\ WindowOnLine(w, v.m_VCount)
        THEN DrawLineToBuffer(m_Buffer, WindowMask(w, win_buffer), FALSE)
        ELSE m_Buffer

\* "Compose screen"
Compose(v) ==
    LET win_none == ~v.m_Win[0].enable /\ ~v.m_Win[1].enable
                       /\ ~v.m_ObjWin.enable
        start == [buffer |-> v.m_Buffer, first_bg |-> TRUE]
    IN  IF win_none
        THEN ComposeLoop(v, start, <<"none", 0>>, 3, 3).buffer
        ELSE ComposeWindow(
                 v,
                 ComposeWindow(
                     v, ComposeLoop(v, start, <<"out", 0>>, 3, 3).buffer, 1),
                 0)

\* Render for the line m_VCount; scene.bg[j] and scene.obj[p] are the lines
\* RenderBackgroundMode0(j) and RenderSprites(p, ..) produce
Render(v, scene) ==
    LET v1 == [v EXCEPT !.m_ObjBuffer =
                  [p \in 0 .. 3 |-> Line(DOMAIN v.m_Buffer, U32(0))]]
        v2 == [v1 EXCEPT !.m_BgBuffer =
                  [j \in 0 .. 3 |->
                      IF v.m_BG[j].enable THEN scene.bg[j] ELSE @[j]]]
        v3 == IF v.m_Obj.enable
              THEN [v2 EXCEPT !.m_ObjBuffer = scene.obj]
              ELSE v2
    IN  IF v.m_ForcedBlank
        THEN [v1 EXCEPT !.m_Buffer =
                 Line(DOMAIN v.m_Buffer, <<65528, 63736>>)]
        ELSE [v3 EXCEPT !.m_Buffer = Compose(v3)]

-----------------------------------------------------------------------------
(* SpecCompose: a line is rendered with no window enabled.  Each           *)
(* background is off or has one of the four priorities; its pixel is       *)
(* opaque or transparent, the same in every column; the sprites have an    *)
(* opaque pixel at no priority or at one.  sched.scene is the scene.       *)

MaxComposes == 1

\* the columns looked at
ComposeColumns == {0, 239}

\* the pixel of background j and of the sprites of priority p
BgColor(j, opaque) ==
    IF opaque THEN <<65280 + 16 * (j + 1), j>> ELSE <<16 * (j + 1), j>>

ObjColor(p) == <<65280 + 128, p>>

\* the line of m_Buffer before the rendering
Untouched == <<4660, 22136>>

WindowInit ==
    [ enable |-> FALSE, bg_in |-> [k \in 0 .. 3 |-> FALSE], obj_in |-> FALSE,
      left |-> 0, right |-> 0, top |-> 0, bottom |-> 0 ]

ComposeVideo(columns, bgs, obj, line) ==
    [ m_BG |-> bgs, m_Obj |-> [enable |-> obj],
      m_Win |-> [i \in 0 .. 1 |-> WindowInit],
      m_WinOut |-> [bg |-> [k \in 0 .. 3 |-> FALSE], obj |-> FALSE],
      m_ObjWin |-> [enable |-> FALSE],
      m_ForcedBlank |-> FALSE,
      m_BgBuffer |-> [j \in 0 .. 3 |-> Line(columns, U32(0))],
      m_ObjBuffer |-> [p \in 0 .. 3 |-> Line(columns, U32(0))],
      m_Buffer |-> Line(columns, Untouched) ]
        @@ [VideoInit EXCEPT !.m_VCount = line]

\* a background and its pixel: off, or on with a priority and a pixel that
\* is opaque or not
ComposeLayers ==
    { [enable |-> FALSE, priority |-> 0, opaque |-> FALSE] }
        \cup { [enable |-> TRUE, priority |-> p, opaque |-> o] :
                  p \in 0 .. 3, o \in BOOLEAN }

\* the sprites: off, or on with an opaque pixel at the priority s, at none
\* when s is 4
ComposeSprites ==
    { [enable |-> FALSE, s |-> 4] }
        \cup { [enable |-> TRUE, s |-> s] : s \in 0 .. 4 }

ComposeBG(l) ==
    [BackgroundInit EXCEPT !.enable = l.enable] @@ [priority |-> l.priority]

ComposeScene(columns, ls, sp) ==
    [bg |-> [j \in 0 .. 3 |-> Line(columns, BgColor(j, ls[j].opaque))],
     obj |-> [p \in 0 .. 3 |->
                 Line(columns, IF p = sp.s THEN ObjColor(p) ELSE U32(0))]]

InitCompose ==
    /\ \E ls \in [0 .. 3 -> ComposeLayers], sp \in ComposeSprites :
          \E blank \in IF sp.s = 0 /\ \A j \in 0 .. 3 : ~ls[j].enable
                       THEN BOOLEAN ELSE {FALSE} :
              /\ video = [ComposeVideo(ComposeColumns,
                                       [j \in 0 .. 3 |-> ComposeBG(ls[j])],
                                       sp.enable, 10)
                             EXCEPT !.m_ForcedBlank = blank]
              /\ sched = [pos |-> "idle",
                          scene |-> ComposeScene(ComposeColumns, ls, sp)]
    /\ irq = InterruptInit
    /\ dma = DMAInit
    /\ wram = NoWram
    /\ timer = TimerInit
    /\ ram = RamInit
    /\ waitstate = WaitstateInit
    /\ halt = "RUN"
    /\ cpu = NoCpu
    /\ rom = NoRom
    /\ reset = NoReset
    /\ call = [op |-> "init", n |-> 0]

RenderLine ==
    /\ call.n < MaxComposes
    /\ video' = Render(video, sched.scene)
    /\ call' = [op |-> "Render", n |-> call.n + 1]
    /\ UNCHANGED <<irq, dma, wram, timer, ram, waitstate, halt, cpu, rom,
                   reset, sched>>

NextCompose == RenderLine

SpecCompose == InitCompose /\ [][NextCompose]_vars

\* the layers of the line: <<"bg", j>> for an enabled background,
\* <<"obj", p>> for the sprites of priority p when sprites are on
C36_Layers ==
    { <<"bg", j>> : j \in { k \in 0 .. 3 : video.m_BG[k].enable } }
        \cup { <<"obj", p>> : p \in { q \in 0 .. 3 : video.m_Obj.enable } }

\* the place of a layer in the order of drawing: priority 3 down to 0,
\* within a priority BG3, BG2, BG1, BG0, then the sprites
C36_Rank(l) ==
    IF l[1] = "bg"
    THEN (3 - video.m_BG[l[2]].priority) * 5 + (3 - l[2])
    ELSE (3 - l[2]) * 5 + 4

C36_Pixel(l, x) ==
    IF l[1] = "bg" THEN sched.scene.bg[l[2]][x] ELSE sched.scene.obj[l[2]][x]

C36_Last(ls) == CHOOSE l \in ls : \A m \in ls : C36_Rank(m) <= C36_Rank(l)

C36_First(ls) == CHOOSE l \in ls : \A m \in ls : C36_Rank(l) <= C36_Rank(m)

C36_Backgrounds == { l \in C36_Layers : l[1] = "bg" }

\* the pixel of column x, the layers that can show being those of `seen`:
\* the last drawn of them that is not transparent there, the first
\* background drawn where all are transparent, and the pixel as it was
\* when no layer is drawn at all
C36_Shown(seen, x) ==
    LET solid == { l \in seen : Alpha(C36_Pixel(l, x)) # 0 }
    IN  IF solid # {}
        THEN video.m_Buffer[x] = Or32(C36_Pixel(C36_Last(solid), x), Opaque)
        ELSE IF C36_Backgrounds # {}
        THEN video.m_Buffer[x] =
                Or32(C36_Pixel(C36_First(C36_Backgrounds), x), Opaque)
        ELSE video.m_Buffer[x] = Untouched

C36_Case ==
    /\ call.op = "Render"
    /\ ~video.m_ForcedBlank

\* C36: with no window enabled and forced blank off, the pixel of a column
\* is the pixel of the layer drawn last, in the order priority 3 down to 0,
\* within a priority BG3, BG2, BG1, BG0 and then the sprites, among the
\* layers that are not transparent there; where every layer is transparent
\* it is the pixel of the first background drawn; every pixel written has
\* the high byte 0xFF.
C36_LastSolidLayerShows ==
    C36_Case =>
        \A x \in ComposeColumns :
            /\ C36_Shown(C36_Layers, x)
            /\ video.m_Buffer[x] # Untouched => Alpha(video.m_Buffer[x]) = 255

\* the layers drawn before the first background are painted over by it,
\* which is drawn as the backdrop
C36_NotPaintedOver ==
    IF C36_Backgrounds = {} THEN C36_Layers
    ELSE { l \in C36_Layers :
              C36_Rank(l) >= C36_Rank(C36_First(C36_Backgrounds)) }

\* the pixel is that of the last solid layer among those drawn from the
\* first background on
C36_LastSolidLayerAfterBackdrop ==
    C36_Case =>
        \A x \in ComposeColumns :
            /\ C36_Shown(C36_NotPaintedOver, x)
            /\ video.m_Buffer[x] # Untouched => Alpha(video.m_Buffer[x]) = 255

\* the sprites of priority 3 are solid, the one background has priority 2
\* and is transparent, and the line shows the background
C36_SpriteLost ==
    /\ C36_Case
    /\ C36_Backgrounds = {<<"bg", 0>>}
    /\ video.m_BG[0].priority = 2
    /\ Alpha(sched.scene.bg[0][0]) = 0
    /\ video.m_Obj.enable
    /\ Alpha(sched.scene.obj[3][0]) = 255
    /\ video.m_Buffer[0] = Or32(sched.scene.bg[0][0], Opaque)

\* a sprite of priority 1 shows over a solid background of priority 1 and
\* under one of priority 0
C36_SpriteBetween ==
    /\ C36_Case
    /\ video.m_BG[0].enable /\ video.m_BG[0].priority = 1
    /\ video.m_BG[1].enable /\ video.m_BG[1].priority = 0
    /\ Alpha(sched.scene.bg[0][0]) = 255
    /\ Alpha(sched.scene.bg[1][0]) = 0
    /\ video.m_Buffer[0] = ObjColor(1)

-----------------------------------------------------------------------------
(* SpecWindow: a line is rendered with windows.  BG0, BG1 and BG2 are on   *)
(* with the priorities 0, 1 and 2 and opaque everywhere; BG0 is enabled    *)
(* inside window 0 alone, BG1 inside window 1 alone and BG2 outside the    *)
(* windows alone, so that the colour of a pixel tells which of the three   *)
(* areas it was taken to lie in.                                           *)

WindowColumns == {0, 9, 10, 11, 19, 20, 21, 239}

WindowLines == {9, 10, 15, 20, 21}

\* <<left, right>> of a window, and <<top, bottom>>
WindowSpans == { <<10, 20>>, <<20, 10>>, <<10, 10>>, <<10, 11>> }

WindowRows == { <<10, 20>>, <<20, 10>> }

WindowOf(k, enable, span, rows) ==
    [WindowInit EXCEPT !.enable = enable,
                       !.bg_in = [j \in 0 .. 3 |-> j = k],
                       !.left = span[1], !.right = span[2],
                       !.top = rows[1], !.bottom = rows[2]]

WindowScene ==
    ComposeScene(WindowColumns,
                 [j \in 0 .. 3 |->
                     [enable |-> j < 3, priority |-> j, opaque |-> TRUE]],
                 [enable |-> FALSE, s |-> 4])

InitWindow ==
    /\ \E e \in [0 .. 1 -> BOOLEAN], span \in [0 .. 1 -> WindowSpans],
          rows \in [0 .. 1 -> WindowRows], line \in WindowLines :
          video =
              [ComposeVideo(WindowColumns,
                            [j \in 0 .. 3 |->
                                [BackgroundInit EXCEPT !.enable = j < 3]
                                    @@ [priority |-> j]],
                            FALSE, line)
                  EXCEPT !.m_Win = [k \in 0 .. 1 |->
                                       WindowOf(k, e[k], span[k], rows[k])],
                         !.m_WinOut.bg = [j \in 0 .. 3 |-> j = 2]]
    /\ sched = [pos |-> "idle", scene |-> WindowScene]
    /\ irq = InterruptInit
    /\ dma = DMAInit
    /\ wram = NoWram
    /\ timer = TimerInit
    /\ ram = RamInit
    /\ waitstate = WaitstateInit
    /\ halt = "RUN"
    /\ cpu = NoCpu
    /\ rom = NoRom
    /\ reset = NoReset
    /\ call = [op |-> "init", n |-> 0]

NextWindow == RenderLine

SpecWindow == InitWindow /\ [][NextWindow]_vars

\* a in the range from lo up to hi, hi left out, wrapped when lo > hi
C37_Within(a, lo, hi) ==
    IF lo <= hi THEN lo <= a /\ a < hi ELSE a >= lo \/ a < hi

\* window i covers the pixel (x, m_VCount): [left, right) x [top, bottom)
C37_Covers(i, x) ==
    /\ video.m_Win[i].enable
    /\ C37_Within(x, video.m_Win[i].left, video.m_Win[i].right)
    /\ C37_Within(video.m_VCount, video.m_Win[i].top, video.m_Win[i].bottom)

\* the columns of a window as the mask is cut: both ends left out, and the
\* columns from right to left left out when the window wraps
C37_ColumnInside(w, x) ==
    IF w.left <= w.right + 1 THEN w.left < x /\ x < w.right
    ELSE x < w.right \/ x > w.left

\* the lines of a window as they are tested: both ends taken in, both left
\* out when the window wraps
C37_LineInside(w, y) ==
    IF w.top <= w.bottom THEN w.top <= y /\ y <= w.bottom
    ELSE y > w.top \/ y < w.bottom

C37_CoversAsCut(i, x) ==
    /\ video.m_Win[i].enable
    /\ C37_ColumnInside(video.m_Win[i], x)
    /\ C37_LineInside(video.m_Win[i], video.m_VCount)

\* the pixel of column x, the windows covering what covers(i, x) tells:
\* BG0 inside window 0, BG1 inside window 1 outside window 0, BG2 outside
\* both; BG0, of the best priority, when no window is enabled
C37_Shown(covers(_, _), x) ==
    video.m_Buffer[x] =
        IF ~video.m_Win[0].enable /\ ~video.m_Win[1].enable
        THEN BgColor(0, TRUE)
        ELSE IF covers(0, x) THEN BgColor(0, TRUE)
        ELSE IF covers(1, x) THEN BgColor(1, TRUE)
        ELSE BgColor(2, TRUE)

\* C37: an enabled window covers the pixel (x, y) exactly when
\* left <= x < right and top <= y < bottom, the range being the wrapped
\* one on an axis where left > right or top > bottom; inside a window its
\* WININ layers show, outside all windows the WINOUT layers, and window 0
\* decides where the two overlap.
C37_WindowsCoverHalfOpenRanges ==
    (call.op = "Render") =>
        \A x \in WindowColumns : C37_Shown(C37_Covers, x)

\* the same with the ranges as the code cuts them
C37_WindowsCoverAsCut ==
    (call.op = "Render") =>
        \A x \in WindowColumns : C37_Shown(C37_CoversAsCut, x)

\* the left column of window 0 is shown as outside the window
C37_LeftColumnOutside ==
    /\ call.op = "Render"
    /\ video.m_Win[0].enable /\ ~video.m_Win[1].enable
    /\ video.m_Win[0].left = 10 /\ video.m_Win[0].right = 20
    /\ video.m_Win[0].top = 10 /\ video.m_Win[0].bottom = 20
    /\ video.m_VCount = 15
    /\ video.m_Buffer[10] = BgColor(2, TRUE)
    /\ video.m_Buffer[11] = BgColor(0, TRUE)

\* window 0 decides over window 1
C37_Overlap ==
    /\ call.op = "Render"
    /\ C37_CoversAsCut(0, 11) /\ C37_CoversAsCut(1, 11)
    /\ video.m_Buffer[11] = BgColor(0, TRUE)

-----------------------------------------------------------------------------
(* SpecBudget: the cycle accounting of CPU::RunFor.  sched holds the       *)
(* position in the function ("idle" outside a call, "outer" at the test of *)
(* the outer loop, "inner" at the test of the inner loop, "events" after   *)
(* it), the parameter cycles, the members ticks_cpu_left and               *)
(* ticks_to_event, mmio.haltcnt as `halted`, and the wait_cycles of the    *)
(* registered event devices.  dma.Run() and cpu.Run() take RunTicks ticks  *)
(* from ticks_cpu_left; Tick() of an event device sets its wait_cycles to  *)
(* one of Rearm.  Whether an interrupt is pending, whether a DMA is        *)
(* running and whether the guest halts the core are left open at every     *)
(* step.  call holds the sums over the call: budget, the cycles taken from *)
(* `cycles`; dev, the cycles the wait counters were moved by; cpu, the     *)
(* ticks the runs have taken.                                              *)

MaxRunForCalls == 2
MaxBudget == 4
MaxRunTicks == 3
MaxPeriod == 2

\* INT_MAX on the scale of the model: above every budget, wait counter and
\* length of a run
INT_MAX == 12

\* a run that takes no tick at all
RunTicks_None == 0 .. MaxRunTicks

RunTicks == 1 .. MaxRunTicks

Rearm == 1 .. MaxPeriod

\* no device, one device, two devices
EventWaits ==
    { << >> } \cup { <<a>> : a \in Rearm } \cup { <<a, b>> : a, b \in Rearm }

InitBudget ==
    /\ \E w \in EventWaits, h \in BOOLEAN :
          sched = [pos |-> "idle", cycles |-> 0, ticks_cpu_left |-> 0,
                   ticks_to_event |-> 0, halted |-> h, wait |-> w]
    /\ irq = InterruptInit
    /\ video = VideoInit
    /\ dma = DMAInit
    /\ wram = NoWram
    /\ timer = TimerInit
    /\ ram = RamInit
    /\ waitstate = WaitstateInit
    /\ halt = "RUN"
    /\ cpu = NoCpu
    /\ rom = NoRom
    /\ reset = NoReset
    /\ call = [op |-> "init", n |-> 0, budget |-> 0, dev |-> 0, cpu |-> 0,
               carried |-> 0]

BudgetFrame ==
    UNCHANGED <<irq, video, dma, wram, timer, ram, waitstate, halt, cpu, rom,
                reset>>

\* the host calls RunFor(cycles)
RunForCall(cycles) ==
    /\ sched.pos = "idle"
    /\ call.n < MaxRunForCalls
    /\ sched' = [sched EXCEPT !.pos = "outer", !.cycles = cycles]
    /\ call' = [op |-> "RunFor", n |-> call.n + 1, budget |-> 0, dev |-> 0,
                cpu |-> 0, carried |-> sched.ticks_cpu_left]
    /\ BudgetFrame

\* while (cycles > 0) { ticks_cpu_left += ticks_to_event;
RunForOuter ==
    /\ sched.pos = "outer"
    /\ sched' = IF sched.cycles > 0
                THEN [sched EXCEPT
                        !.pos = "inner",
                        !.ticks_cpu_left = @ + sched.ticks_to_event]
                ELSE [sched EXCEPT !.pos = "idle"]
    /\ call' = [call EXCEPT !.op = "Outer"]
    /\ BudgetFrame

\* one round of the inner loop
RunForInner ==
    /\ sched.pos = "inner"
    /\ IF sched.ticks_cpu_left <= 0
       THEN /\ sched' = [sched EXCEPT !.pos = "events"]
            /\ call' = [call EXCEPT !.op = "Inner"]
       ELSE \E fire \in BOOLEAN, running \in BOOLEAN, k \in RunTicks,
               halts \in BOOLEAN :
               LET halted == sched.halted /\ ~fire
               IN  IF running
                   THEN /\ sched' = [sched EXCEPT
                                        !.halted = halted,
                                        !.ticks_cpu_left = @ - k]
                        /\ call' = [call EXCEPT !.op = "Inner",
                                                !.cpu = @ + k]
                   ELSE IF ~halted
                   THEN /\ sched' = [sched EXCEPT
                                        !.halted = halts,
                                        !.ticks_cpu_left = @ - k]
                        /\ call' = [call EXCEPT !.op = "Inner",
                                                !.cpu = @ + k]
                   ELSE /\ sched' = [sched EXCEPT
                                        !.halted = TRUE,
                                        !.ticks_cpu_left = 0,
                                        !.pos = "events"]
                        /\ call' = [call EXCEPT
                                      !.op = "Inner",
                                      !.cpu = @ + sched.ticks_cpu_left]
    /\ BudgetFrame

\* a device whose counter has just reached 0 is left alone
Due_Late(wait_cycles) == wait_cycles < 0

\* if (event->wait_cycles <= 0)
Due(wait_cycles) == wait_cycles <= 0

\* the loop over the event devices: wait holds the counters, the first i
\* of them done; re[i] is the value Tick() gives counter i
RECURSIVE EventLoop(_, _, _, _, _)
EventLoop(wait, ticks_to_event, elapsed, re, i) ==
    IF i > Len(wait) THEN [wait |-> wait, ticks_to_event |-> ticks_to_event]
    ELSE LET w0 == wait[i] - elapsed
             w1 == IF Due(w0) THEN re[i] ELSE w0
         IN  EventLoop([wait EXCEPT ![i] = w1],
                       IF w1 < ticks_to_event THEN w1 ELSE ticks_to_event,
                       elapsed, re, i + 1)

\* the lines after the inner loop
RunForEvents ==
    /\ sched.pos = "events"
    /\ \E re \in [1 .. Len(sched.wait) -> Rearm] :
          LET elapsed == sched.ticks_to_event + sched.ticks_cpu_left
              r == EventLoop(sched.wait, INT_MAX, elapsed, re, 1)
          IN  /\ sched' = [sched EXCEPT
                              !.pos = "outer",
                              !.cycles = @ - sched.ticks_to_event,
                              !.ticks_to_event = r.ticks_to_event,
                              !.wait = r.wait]
              /\ call' = [call EXCEPT
                             !.op = "Events",
                             !.budget = @ + sched.ticks_to_event,
                             !.dev = @ + elapsed]
    /\ BudgetFrame

NextBudget ==
    \/ \E cycles \in 1 .. MaxBudget : RunForCall(cycles)
    \/ RunForOuter
    \/ RunForInner
    \/ RunForEvents

SpecBudget == InitBudget /\ [][NextBudget]_vars

\* the function takes its steps
SpecBudgetFair == SpecBudget /\ WF_vars(NextBudget)

\* C38: RunFor(cycles) returns for every cycles > 0, every run of the CPU
\* or of a DMA taking at least one tick and every Tick() setting the wait
\* counter to a positive value; with no event device, and with the core
\* halted for the whole call, too.
C38_RunForReturns == (sched.pos # "idle") ~> (sched.pos = "idle")

\* a call has returned with no event device and the core halted all along
C38_Witness ==
    /\ sched.pos = "idle"
    /\ call.op = "Outer"
    /\ sched.wait = << >>
    /\ sched.halted
    /\ call.cpu = INT_MAX
    /\ call.n = 1

\* a call with two event devices has returned
C38_WitnessDevices ==
    /\ sched.pos = "idle"
    /\ call.op = "Outer"
    /\ Len(sched.wait) = 2
    /\ call.cpu > 0

\* the loop over the event devices has run in a call with a device in it
C40_Advanced == call.op = "Events" /\ Len(sched.wait) > 0

\* what the last run went over ticks_cpu_left by
C40_Overshoot == 0 - sched.ticks_cpu_left

\* C40: across a RunFor call the wait counter of every event device is
\* moved by as many cycles as are taken from the caller's budget, and that
\* sum is within the overshoot now in ticks_cpu_left of the ticks the CPU
\* and the DMA have taken.
C40_DevicesKeepPace ==
    C40_Advanced =>
        /\ call.dev = call.budget
        /\ call.dev - call.cpu <= C40_Overshoot
        /\ call.cpu - call.dev <= C40_Overshoot

\* the wait counters are never moved by more than is taken from the budget
C40_DevicesLag == C40_Advanced => call.dev <= call.budget

\* the wait counters are behind the budget by more than one run can go
\* over, with no overshoot left in ticks_cpu_left
C40_Drift ==
    /\ C40_Advanced
    /\ call.n = 1
    /\ sched.ticks_cpu_left = 0
    /\ call.budget - call.dev > MaxRunTicks - 1

\* one run has gone over by one tick: the device is moved by one cycle less
\* than the budget
C40_OneOvershoot ==
    /\ C40_Advanced
    /\ call.n = 1
    /\ sched.ticks_cpu_left = -1
    /\ call.budget = 2
    /\ call.dev = 1
    /\ call.cpu = 3

-----------------------------------------------------------------------------
(* SpecTake: the programs of SpecPipe with an interrupt taken between two  *)
(* calls of ARM7::Step, at any point of the program.  sched.next is the    *)
(* address of the first instruction that has not been executed: the entry  *)
(* point at the start, the address Step has branched to after a flush, one *)
(* instruction further after every other Step that executes.  The handler  *)
(* at 0x18 is not run.                                                     *)

\* the first instruction not yet executed, after the Step from c to d
NextInstruction(c, d, next) ==
    IF d.pipe_status = 0 THEN d.regs["r15"]
    ELSE IF c.pipe_status >= 2 THEN Add32(next, C26_Size(c))
    ELSE next

InitTake ==
    /\ \E thumb \in BOOLEAN, first \in FirstInputs, mode \in Modes :
          IF thumb
          THEN /\ \E off \in ThumbBranchInputs :
                     rom = RomImage(HWordPairs(ThumbProgram(first, off)))
               /\ cpu = RemapRegisters(
                            [ARM7Init(mode) EXCEPT !.cpsr = U32(mode + Thumb)])
          ELSE /\ \E off \in BranchInputs :
                     rom = RomImage(Program(first, off))
               /\ cpu = ARM7Init(mode)
    /\ irq = InterruptInit
    /\ video = VideoInit
    /\ dma = DMAInit
    /\ wram = NoWram
    /\ timer = TimerInit
    /\ ram = RamInit
    /\ waitstate = WaitstateInit
    /\ halt = "RUN"
    /\ reset = NoReset
    /\ sched = [pos |-> "idle", next |-> cpu.regs["r15"], taken |-> FALSE,
                flushed |-> FALSE]
    /\ call = [op |-> "init"]

TakeFrame ==
    UNCHANGED <<irq, video, dma, wram, timer, ram, waitstate, halt, rom,
                reset>>

TakeStep ==
    /\ ~sched.taken
    /\ StepModelled(cpu, Bus, rom)
    /\ cpu' = Step(cpu, Bus, rom)
    /\ sched' = [sched EXCEPT
                    !.next = NextInstruction(cpu, cpu', @),
                    !.flushed = @ \/ cpu'.pipe_status = 0]
    /\ call' = [op |-> "Step"]
    /\ TakeFrame

TakeIRQ ==
    /\ ~sched.taken
    /\ cpu' = FireIRQState(cpu)
    /\ sched' = [sched EXCEPT !.taken = TRUE]
    /\ call' = [op |-> "FireIRQ", cpu |-> cpu]
    /\ TakeFrame

NextTake ==
    \/ TakeStep
    \/ TakeIRQ

SpecTake == InitTake /\ [][NextTake]_vars

\* FireIRQ has taken the interrupt
C39_Taken == call.op = "FireIRQ" /\ Bit(call.cpu.cpsr[2], 7) = 0

\* the address SUBS PC, LR, #4 returns to
C39_Return == Sub32(cpu.regs["r14_irq"], U32(4))

\* C39: whenever FireIRQ takes the interrupt, r14_irq - 4 is the address of
\* the first instruction that has not been executed, in ARM and in Thumb
\* state and at every pipeline status 0 .. 4, the Steps after a flush
\* included.
C39_ReturnsToNextInstruction ==
    C39_Taken => C39_Return = sched.next

\* with the pipeline full r14_irq - 4 is the first instruction not executed
C39_ReturnsWhenFull ==
    (C39_Taken /\ call.cpu.pipe_status \in 2 .. 4) => C39_Return = sched.next

\* with the pipeline filling r14_irq - 4 is below it, by the instructions
\* still to be fetched
C39_ReturnsShortWhenFilling ==
    (C39_Taken /\ call.cpu.pipe_status \in 0 .. 1) =>
        C39_Return =
            Sub32(sched.next,
                  IF C26_Thumb(call.cpu)
                  THEN U32(2 * (2 - call.cpu.pipe_status))
                  ELSE U32(4 * (2 - call.cpu.pipe_status)))

\* an interrupt taken right after an ARM branch has flushed the pipeline:
\* the return address is two instructions below the branch target
C39_AfterFlush ==
    /\ C39_Taken
    /\ sched.flushed
    /\ ~C26_Thumb(call.cpu)
    /\ call.cpu.pipe_status = 0
    /\ sched.next = call.cpu.regs["r15"]
    /\ C39_Return = Sub32(sched.next, U32(8))

\* an interrupt taken in Thumb state one Step after a flush
C39_ThumbRefill ==
    /\ C39_Taken
    /\ sched.flushed
    /\ C26_Thumb(call.cpu)
    /\ call.cpu.pipe_status = 1
    /\ C39_Return = Sub32(sched.next, U32(2))

\* an interrupt taken in Thumb state with the pipeline full
C39_ThumbFull ==
    /\ C39_Taken
    /\ C26_Thumb(call.cpu)
    /\ call.cpu.pipe_status = 4
    /\ C39_Return = sched.next

====
